---- MODULE Spec2Model ----
(***************************************************************************)
(* Status & Location Inference Engine of the fleet and destroyer scrapers: *)
(* parse_status_entry (Temporal Annotator + Status Selector) and           *)
(* categorize_location (Location Classifier), modelled on character        *)
(* strings.  Texts are TLA+ strings; Len, SubSeq and \o act on them        *)
(* character by character.                                                 *)
(***************************************************************************)
EXTENDS Integers, Sequences, FiniteSets, TLC

VARIABLES
    variant,          \* which scraper's tables are in use: "fleet" or "destroyer"
    pc,               \* position inside the function being executed
    text_block,       \* parse_status_entry: its argument
    lines,            \* parse_status_entry: text_block.split('\n')
    current_year,     \* parse_status_entry: the initial current year
    running_year,     \* parse_status_entry: the running year of the annotator loop
    processed_lines,  \* parse_status_entry: list of {'text', 'year'}
    idx,              \* index of the line / entry the current loop is at
    result,           \* parse_status_entry: the returned (year, status), or NoResult
    text,             \* categorize_location: its argument
    homeport,         \* categorize_location: its argument
    location,         \* categorize_location: the returned tag, or NoResult
    last_found,       \* categorize_location: (last_position, last_match)
    scan_order,       \* categorize_location: the (location_name, keyword) pairs of
                      \* LOCATION_KEYWORDS in the order the search visits them
    date_str,         \* extract_date: the returned string, or NoResult
    response,         \* scrape_fleet: the outcome of the last requests.get
    results,          \* scrape_fleet: the list of ShipStatus objects
    location_groups,  \* apply_location_offsets: location -> its ships, as
                      \* (location, positions in the list) in insertion order
    group_index,      \* apply_location_offsets: the group being placed
    member_index,     \* apply_location_offsets: i of `enumerate(group)`
    retries,          \* make_api_request: its argument
    attempt,          \* make_api_request: the attempt the loop is at
    api_responses,    \* make_api_request: what requests.get gave, per attempt
    wait_times,       \* make_api_request: the seconds slept after each attempt
    api_return,       \* make_api_request: the returned value, or NoResult
    query_index,      \* fetch loops: the (branch, content type) query at hand
    search_results,   \* fetch loops: the raw items the query returned
    item_index,       \* fetch loops: the raw item the inner loop is at
    parsed_items,     \* fetch loops: the items parse_dvids_item has returned
    seen_ids,         \* fetch loops: seen_ids
    all_items         \* fetch loops: all_items (items), the list returned

vars == <<variant, pc, text_block, lines, current_year, running_year,
          processed_lines, idx, result, text, homeport, location,
          last_found, scan_order, date_str, response, results, location_groups,
          group_index, member_index, retries, attempt, api_responses,
          wait_times, api_return, query_index, search_results, item_index,
          parsed_items, seen_ids, all_items>>

parseVars == <<text_block, lines, current_year, running_year,
               processed_lines, idx, result>>
locVars == <<text, homeport, location>>
scanVars == <<last_found, scan_order>>
fleetVars == <<date_str, response, results, location_groups, group_index,
              member_index>>

apiVars == <<retries, attempt, api_responses, wait_times, api_return>>
fetchVars == <<query_index, search_results, item_index, parsed_items, seen_ids,
               all_items>>

NoResult == "<none>"

\* make_api_request and the fetch loops have not been called
DvidsIdle ==
    /\ retries = 0
    /\ attempt = 0
    /\ api_responses = <<>>
    /\ wait_times = <<>>
    /\ api_return = NoResult
    /\ query_index = 0
    /\ search_results = <<>>
    /\ item_index = 0
    /\ parsed_items = <<>>
    /\ seen_ids = {}
    /\ all_items = <<>>

\* no request has been made
NoResponse == [failed |-> FALSE, content |-> NoResult]

(***************************************************************************)
(* Bounds of the model.                                                    *)
(***************************************************************************)
MaxLines == 3
MaxFrags == 3

(***************************************************************************)
(* Python string primitives.                                               *)
(***************************************************************************)
UpperChars == "ABCDEFGHIJKLMNOPQRSTUVWXYZ"
LowerChars == "abcdefghijklmnopqrstuvwxyz"

\* the lower-case letter of each upper-case letter
LowerMap ==
    [c \in {SubSeq(UpperChars, k, k) : k \in 1..Len(UpperChars)} |->
        LET k == CHOOSE k \in 1..Len(UpperChars) : SubSeq(UpperChars, k, k) = c
        IN  SubSeq(LowerChars, k, k)]

\* str.lower() on one character
LowerChar(c) == IF c \in DOMAIN LowerMap THEN LowerMap[c] ELSE c

RECURSIVE Lower(_)
\* str.lower(): every character lower-cased, the string taken in two halves
Lower(s) ==
    IF Len(s) = 0 THEN s
    ELSE IF Len(s) = 1 THEN LowerChar(s)
    ELSE Lower(SubSeq(s, 1, Len(s) \div 2)) \o Lower(SubSeq(s, Len(s) \div 2 + 1, Len(s)))

\* `sub in s`
Contains(sub, s) ==
    \E p \in 1..(Len(s) - Len(sub) + 1) : SubSeq(s, p, p + Len(sub) - 1) = sub

\* s.startswith(prefix)
StartsWith(s, prefix) ==
    Len(s) >= Len(prefix) /\ SubSeq(s, 1, Len(prefix)) = prefix

Whitespace == {" ", "\t", "\n", "\r", "\f"}

RECURSIVE LStrip(_)
LStrip(s) ==
    IF Len(s) > 0 /\ SubSeq(s, 1, 1) \in Whitespace
    THEN LStrip(SubSeq(s, 2, Len(s)))
    ELSE s

RECURSIVE RStrip(_)
RStrip(s) ==
    IF Len(s) > 0 /\ SubSeq(s, Len(s), Len(s)) \in Whitespace
    THEN RStrip(SubSeq(s, 1, Len(s) - 1))
    ELSE s

\* str.strip()
Strip(s) == RStrip(LStrip(s))

\* the least member of a non-empty set of positions
MinPos(S) == CHOOSE p \in S : \A q \in S : p <= q

\* the greatest member of a non-empty set of positions
MaxPos(S) == CHOOSE p \in S : \A q \in S : q <= p

RECURSIVE SplitFrom(_, _)
\* the pieces of s from position start on: up to the next "\n", then the rest
SplitFrom(s, start) ==
    LET breaks == {p \in start..Len(s) : SubSeq(s, p, p) = "\n"}
    IN  IF breaks = {} THEN <<SubSeq(s, start, Len(s))>>
        ELSE <<SubSeq(s, start, MinPos(breaks) - 1)>> \o SplitFrom(s, MinPos(breaks) + 1)

\* s.split('\n')
SplitLines(s) == SplitFrom(s, 1)

RECURSIVE JoinLines(_)
\* '\n'.join(ls)
JoinLines(ls) ==
    IF Len(ls) = 0 THEN ""
    ELSE IF Len(ls) = 1 THEN ls[1]
    ELSE ls[1] \o "\n" \o JoinLines(Tail(ls))

(***************************************************************************)
(* parse_status_entry                                                      *)
(***************************************************************************)
\* the strings the pattern 202[3-7] matches
YearTokens == {"2023", "2024", "2025", "2026", "2027"}

RECURSIVE FindAllYears(_, _)
\* re.findall(r'(202[3-7])', s) from position p: the leftmost match at or
\* after p, then the matches after its end (matches do not overlap)
FindAllYears(s, p) ==
    LET hits == {q \in p..(Len(s) - 3) : SubSeq(s, q, q + 3) \in YearTokens}
    IN  IF hits = {} THEN <<>>
        ELSE <<SubSeq(s, MinPos(hits), MinPos(hits) + 3)>>
                 \o FindAllYears(s, MinPos(hits) + 4)

years_found(s) == FindAllYears(s, 1)

\* [y for y in ys if y in wanted]
FilterYears(ys, wanted) == SelectSeq(ys, LAMBDA y : y \in wanted)

\* mutant of InitialYear: a block without year token gets a recent year
InitialYearDefaultsRecent(ys) ==
    IF Len(ys) = 0 THEN "2025"
    ELSE LET prio  == FilterYears(ys, {"2025", "2026", "2027"})
             prio2 == IF Len(prio) = 0 THEN FilterYears(ys, {"2024"}) ELSE prio
         IN  IF Len(prio2) > 0 THEN prio2[Len(prio2)] ELSE ys[Len(ys)]

\* mutant of InitialYear: the latest of the years found, not the last found
InitialYearLatest(ys) ==
    LET found == {ys[k] : k \in 1..Len(ys)}
    IN  IF "2027" \in found THEN "2027"
        ELSE IF "2026" \in found THEN "2026"
        ELSE IF "2025" \in found THEN "2025"
        ELSE IF "2024" \in found THEN "2024"
        ELSE IF "2023" \in found THEN "2023"
        ELSE "Unknown"

\* current_year as computed from years_found
InitialYear(ys) ==
    IF Len(ys) = 0 THEN "Unknown"
    ELSE LET prio  == FilterYears(ys, {"2025", "2026", "2027"})
             prio2 == IF Len(prio) = 0 THEN FilterYears(ys, {"2024"}) ELSE prio
         IN  IF Len(prio2) > 0 THEN prio2[Len(prio2)] ELSE ys[Len(ys)]

\* mutant of YearMatch: only a line that is a bare year is a header
YearMatchWholeLine(line) == Len(line) = 4 /\ line \in YearTokens

\* mutant of YearMatch: any four digits open a header line
YearMatchAnyYear(line) ==
    /\ Len(line) >= 4
    /\ \A q \in 1..4 :
          SubSeq(line, q, q) \in {"0", "1", "2", "3", "4", "5", "6", "7", "8", "9"}

\* re.search(r'^(202[3-7])', line) succeeds
YearMatch(line) == Len(line) >= 4 /\ SubSeq(line, 1, 4) \in YearTokens

\* year_match.group(0)
YearMatchGroup(line) == SubSeq(line, 1, 4)

\* the activity vocabulary of each scraper
keywords ==
    [fleet |->
        <<"moored", "anchored", "underway", "arrived", "departed",
          "transited", "operations", "returned", "participated", "conducted",
          "moved to", "visited", "pulled into", "sea trials", "flight deck",
          "undocked", "homeport", "recently">>,
     destroyer |->
        <<"moored", "anchored", "underway", "arrived", "departed",
          "transited", "operations", "returned", "participated", "conducted",
          "moved to", "visited", "pulled into", "sea trials", "flight deck",
          "undocked", "homeport", "recently", "deployed">>]

\* mutant of fallback_years: the fallback scan also accepts 2023
fallback_years_wide == {"2023", "2024"}

allowed_years == {"2025", "2026", "2027"}

fallback_years == {"2024"}

\* any(k in text_lower for k in keywords)
AnyKeyword(v, text_lower) ==
    \E k \in 1..Len(keywords[v]) : Contains(keywords[v][k], text_lower)

\* mutant of IsRangeCaption: the line is not trimmed before the test
IsRangeCaptionUnstripped(text_lower) ==
    StartsWith(text_lower, "from ") /\ Contains(" - ", text_lower)

\* text_lower.strip().startswith("from ") and " - " in text_lower
IsRangeCaption(text_lower) ==
    StartsWith(Strip(text_lower), "from ") /\ Contains(" - ", text_lower)

\* mutant of EntryReturned: the year of the entry is not tested
EntryReturnedAnyYear(v, entry, years) ==
    LET text_lower == Lower(entry.text)
    IN  /\ AnyKeyword(v, text_lower)
        /\ ~IsRangeCaption(text_lower)

\* mutant of EntryReturned: the keywords are matched case-sensitively
EntryReturnedCaseSensitive(v, entry, years) ==
    /\ entry.year \in years
    /\ AnyKeyword(v, entry.text)
    /\ ~IsRangeCaption(Lower(entry.text))

\* the scan's test on one entry: TRUE when the entry is returned
EntryReturned(v, entry, years) ==
    LET text_lower == Lower(entry.text)
    IN  /\ entry.year \in years
        /\ AnyKeyword(v, text_lower)
        /\ ~IsRangeCaption(text_lower)

\* lines = split; current_year from the year tokens; running_year = current_year
FindYears ==
    /\ pc = "start"
    /\ lines' = SplitLines(text_block)
    /\ current_year' = InitialYear(years_found(text_block))
    /\ running_year' = InitialYear(years_found(text_block))
    /\ processed_lines' = <<>>
    /\ idx' = 1
    /\ pc' = "annotate"
    /\ UNCHANGED <<variant, apiVars, fetchVars, text_block, result, locVars, scanVars, fleetVars>>

\* one iteration of `for line in lines`
AnnotateLine ==
    /\ pc = "annotate"
    /\ LET line == lines[idx]
           ry   == IF YearMatch(line) THEN YearMatchGroup(line) ELSE running_year
       IN  /\ running_year' = ry
           /\ processed_lines' = Append(processed_lines, [text |-> line, year |-> ry])
    /\ IF idx < Len(lines)
       THEN idx' = idx + 1 /\ pc' = "annotate"
       ELSE idx' = Len(lines) /\ pc' = "primary"
    /\ UNCHANGED <<variant, apiVars, fetchVars, text_block, lines, current_year, result, locVars, scanVars, fleetVars>>

\* one iteration of the first `for entry in reversed(processed_lines)`
PrimaryScanStep ==
    /\ pc = "primary"
    /\ LET entry == processed_lines[idx]
       IN  IF EntryReturned(variant, entry, allowed_years)
           THEN /\ result' = <<entry.year, entry.text>>
                /\ pc' = "returned_primary"
                /\ idx' = idx
           ELSE /\ result' = result
                /\ IF idx > 1
                   THEN idx' = idx - 1 /\ pc' = "primary"
                   ELSE idx' = Len(processed_lines) /\ pc' = "secondary"
    /\ UNCHANGED <<variant, apiVars, fetchVars, text_block, lines, current_year, running_year,
                   processed_lines, locVars, scanVars, fleetVars>>

\* one iteration of the second `for entry in reversed(processed_lines)`
SecondaryScanStep ==
    /\ pc = "secondary"
    /\ LET entry == processed_lines[idx]
       IN  IF EntryReturned(variant, entry, fallback_years)
           THEN /\ result' = <<entry.year, entry.text>>
                /\ pc' = "returned_secondary"
                /\ idx' = idx
           ELSE /\ result' = result
                /\ IF idx > 1
                   THEN idx' = idx - 1 /\ pc' = "secondary"
                   ELSE idx' = idx /\ pc' = "fallback"
    /\ UNCHANGED <<variant, apiVars, fetchVars, text_block, lines, current_year, running_year,
                   processed_lines, locVars, scanVars, fleetVars>>

\* mutant of ReturnNoStatus: the running year is returned with the sentinel
ReturnNoStatusRunningYear ==
    /\ pc = "fallback"
    /\ result' = <<running_year, "No recent status found.">>
    /\ pc' = "returned_default"
    /\ UNCHANGED <<variant, apiVars, fetchVars, text_block, lines, current_year, running_year,
                   processed_lines, idx, locVars, scanVars, fleetVars>>

\* return current_year, "No recent status found."  (pc records which of the
\* three return statements was taken)
ReturnNoStatus ==
    /\ pc = "fallback"
    /\ result' = <<current_year, "No recent status found.">>
    /\ pc' = "returned_default"
    /\ UNCHANGED <<variant, apiVars, fetchVars, text_block, lines, current_year, running_year,
                   processed_lines, idx, locVars, scanVars, fleetVars>>

(***************************************************************************)
(* Inputs of parse_status_entry: blocks of up to MaxLines lines.           *)
(***************************************************************************)
LinePool ==
    {"2025", "2024", "2023", "2022", "Moored", "2024 anchored",
     " From A - B underway", "2026 arrived", "deployed", "in 2027", "",
     "from port Departed"}

Blocks ==
    {JoinLines(ls) : ls \in UNION {[1..n -> LinePool] : n \in 1..MaxLines}}

Variants == {"fleet", "destroyer"}

InitParse ==
    /\ variant \in Variants
    /\ text_block \in Blocks
    /\ pc = "start"
    /\ lines = <<>>
    /\ current_year = "Unknown"
    /\ running_year = "Unknown"
    /\ processed_lines = <<>>
    /\ idx = 0
    /\ result = NoResult
    /\ text = NoResult
    /\ homeport = NoResult
    /\ location = NoResult
    /\ last_found = <<-1, NoResult>>
    /\ scan_order = <<>>
    /\ date_str = NoResult
    /\ response = NoResponse
    /\ DvidsIdle
    /\ results = <<>>
    /\ location_groups = <<>>
    /\ group_index = 0
    /\ member_index = 0

NextParse ==
    \/ FindYears
    \/ AnnotateLine
    \/ PrimaryScanStep
    \/ SecondaryScanStep
    \/ ReturnNoStatus

SpecParse == InitParse /\ [][NextParse]_vars

(***************************************************************************)
(* categorize_location                                                     *)
(***************************************************************************)
\* (location_name, [keywords]) pairs, in table order
LOCATION_KEYWORDS ==
    [fleet |->
       <<<<"Ponce", <<"ponce", "port of ponce">>>>,
         <<"Okinawa", <<"okinawa", "white beach", "east coast of okinawa">>>>,
         <<"Sasebo", <<"sasebo", "juliet basin wharf">>>>,
         <<"Yokosuka", <<"yokosuka">>>>,
         <<"Norfolk / Portsmouth", <<"norfolk", "portsmouth", "virginia beach", "naval station norfolk", "pier 11", "pier 12", "pier 14", "bae systems shipyard", "nassco">>>>,
         <<"San Diego", <<"san diego", "north island", "camp pendleton", "naval base san diego">>>>,
         <<"Bremerton / Kitsap", <<"bremerton", "kitsap", "psns", "puget sound">>>>,
         <<"Newport News", <<"newport news", "huntington ingalls", "outfitting berth">>>>,
         <<"Pearl Harbor", <<"pearl harbor">>>>,
         <<"Mayport", <<"mayport", "naval station mayport">>>>,
         <<"Everett", <<"everett">>>>,
         <<"Pascagoula", <<"pascagoula", "ingalls">>>>,
         <<"Guam", <<"guam", "apra">>>>,
         <<"Singapore", <<"singapore", "changi">>>>,
         <<"Bahrain", <<"bahrain", "manama">>>>,
         <<"Dubai", <<"dubai", "jebel ali">>>>,
         <<"Busan", <<"busan">>>>,
         <<"Philippines", <<"philippines", "manila", "subic">>>>,
         <<"Malaysia", <<"malaysia", "klang">>>>,
         <<"Caribbean Sea", <<"caribbean", "venezuela", "orchila", "st. croix", "trinidad", "tobago", "puerto rico", "virgin islands", "absolute resolve">>>>,
         <<"South China Sea", <<"south china sea", "spratly islands", "spratly", "luzon">>>>,
         <<"Western Pacific (WESTPAC)", <<"san bernardino strait", "western pacific", "westpac">>>>,
         <<"Philippine Sea", <<"philippine sea">>>>,
         <<"East China Sea", <<"east china sea">>>>,
         <<"Red Sea", <<"red sea">>>>,
         <<"Persian Gulf", <<"persian gulf", "arabian gulf">>>>,
         <<"Gulf of Oman", <<"gulf of oman">>>>,
         <<"Gulf of Aden", <<"gulf of aden">>>>,
         <<"Arabian Sea", <<"arabian sea">>>>,
         <<"Mediterranean", <<"mediterranean", "med sea">>>>,
         <<"North Sea", <<"north sea">>>>,
         <<"Norwegian Sea", <<"norwegian sea">>>>,
         <<"Strait of Gibraltar", <<"gibraltar">>>>,
         <<"Suez Canal", <<"suez">>>>,
         <<"Bab el-Mandeb", <<"bab el-mandeb">>>>,
         <<"Sea of Japan", <<"sea of japan">>>>,
         <<"Atlantic Ocean", <<"atlantic">>>>,
         <<"Pacific Ocean", <<"pacific">>>>,
         <<"Indian Ocean", <<"indian ocean">>>>>>,
     destroyer |->
       <<<<"Rota", <<"rota", "naval station rota">>>>,
         <<"Bath", <<"bath iron works", "bath maine", "biw">>>>,
         <<"Okinawa", <<"okinawa", "white beach">>>>,
         <<"Sasebo", <<"sasebo", "juliet basin">>>>,
         <<"Yokosuka", <<"yokosuka">>>>,
         <<"Norfolk / Portsmouth", <<"norfolk", "portsmouth", "virginia beach", "naval station norfolk", "pier 11", "pier 12", "pier 14", "bae systems shipyard", "nassco">>>>,
         <<"San Diego", <<"san diego", "north island", "naval base san diego">>>>,
         <<"Bremerton / Kitsap", <<"bremerton", "kitsap", "psns", "puget sound">>>>,
         <<"Newport News", <<"newport news", "huntington ingalls">>>>,
         <<"Pearl Harbor", <<"pearl harbor">>>>,
         <<"Mayport", <<"mayport", "naval station mayport">>>>,
         <<"Everett", <<"everett">>>>,
         <<"Pascagoula", <<"pascagoula", "ingalls">>>>,
         <<"Guam", <<"guam", "apra">>>>,
         <<"Singapore", <<"singapore", "changi">>>>,
         <<"Bahrain", <<"bahrain", "manama">>>>,
         <<"Dubai", <<"dubai", "jebel ali">>>>,
         <<"Busan", <<"busan">>>>,
         <<"Philippines", <<"philippines", "manila", "subic">>>>,
         <<"Malaysia", <<"malaysia", "klang">>>>,
         <<"Caribbean Sea", <<"caribbean", "venezuela", "st. croix", "puerto rico", "virgin islands">>>>,
         <<"South China Sea", <<"south china sea", "spratly islands">>>>,
         <<"Western Pacific (WESTPAC)", <<"western pacific", "westpac">>>>,
         <<"Philippine Sea", <<"philippine sea">>>>,
         <<"East China Sea", <<"east china sea">>>>,
         <<"Red Sea", <<"red sea">>>>,
         <<"Persian Gulf", <<"persian gulf", "arabian gulf">>>>,
         <<"Gulf of Oman", <<"gulf of oman">>>>,
         <<"Gulf of Aden", <<"gulf of aden">>>>,
         <<"Arabian Sea", <<"arabian sea">>>>,
         <<"Mediterranean", <<"mediterranean", "med sea">>>>,
         <<"North Sea", <<"north sea">>>>,
         <<"Norwegian Sea", <<"norwegian sea">>>>,
         <<"Baltic Sea", <<"baltic">>>>,
         <<"Black Sea", <<"black sea">>>>,
         <<"Strait of Gibraltar", <<"gibraltar">>>>,
         <<"Suez Canal", <<"suez">>>>,
         <<"Bab el-Mandeb", <<"bab el-mandeb">>>>,
         <<"Sea of Japan", <<"sea of japan">>>>,
         <<"Atlantic Ocean", <<"atlantic">>>>,
         <<"Pacific Ocean", <<"pacific">>>>,
         <<"Indian Ocean", <<"indian ocean">>>>>>]

\* (phrase, loc) pairs, in table order
departure_patterns ==
    [fleet |->
       <<<<"departed san diego", "Pacific Ocean">>,
         <<"departed norfolk", "Atlantic Ocean">>,
         <<"departed pearl harbor", "Pacific Ocean">>,
         <<"departed mayport", "Atlantic Ocean">>,
         <<"departed bremerton", "Pacific Ocean">>,
         <<"departed yokosuka", "Western Pacific (WESTPAC)">>,
         <<"departed sasebo", "Western Pacific (WESTPAC)">>>>,
     destroyer |->
       <<<<"departed san diego", "Pacific Ocean">>,
         <<"departed norfolk", "Atlantic Ocean">>,
         <<"departed pearl harbor", "Pacific Ocean">>,
         <<"departed mayport", "Atlantic Ocean">>,
         <<"departed everett", "Pacific Ocean">>,
         <<"departed yokosuka", "Western Pacific (WESTPAC)">>,
         <<"departed sasebo", "Western Pacific (WESTPAC)">>,
         <<"departed rota", "Mediterranean">>>>]

\* the 1-based positions at which sub occurs in s
Occurrences(sub, s) ==
    {p \in 1..(Len(s) - Len(sub) + 1) : SubSeq(s, p, p + Len(sub) - 1) = sub}

\* s.find(sub): the 0-based index of the first occurrence, or -1
Find(sub, s) ==
    LET occ == Occurrences(sub, s)
    IN  IF occ = {} THEN -1 ELSE MinPos(occ) - 1

\* s.rfind(sub): the 0-based index of the last occurrence, or -1
RFind(sub, s) ==
    LET occ == Occurrences(sub, s)
    IN  IF occ = {} THEN -1 ELSE MaxPos(occ) - 1

\* mutant of RemainingText: the text after the FIRST occurrence of the phrase
RemainingTextAfterFirst(text_lower, phrase) ==
    SubSeq(text_lower, Find(phrase, text_lower) + Len(phrase) + 1, Len(text_lower))

\* text_lower[dep_idx + len(phrase):]
RemainingText(text_lower, phrase) ==
    SubSeq(text_lower, RFind(phrase, text_lower) + Len(phrase) + 1, Len(text_lower))

\* the has_subsequent loops: some keyword of the table is in remaining_text
HasSubsequent(v, remaining_text) ==
    \E n \in 1..Len(LOCATION_KEYWORDS[v]) :
        \E k \in 1..Len(LOCATION_KEYWORDS[v][n][2]) :
            Contains(LOCATION_KEYWORDS[v][n][2][k], remaining_text)

RECURSIVE DepartureLoopFirstInTable(_, _, _)
\* mutant of DepartureLoop: the first phrase of the table that is in the text
\* fires, whatever follows it
DepartureLoopFirstInTable(v, text_lower, n) ==
    IF n > Len(departure_patterns[v]) THEN NoResult
    ELSE IF Contains(departure_patterns[v][n][1], text_lower)
         THEN departure_patterns[v][n][2]
         ELSE DepartureLoopFirstInTable(v, text_lower, n + 1)

RECURSIVE DepartureLoop(_, _, _)
\* `for phrase, loc in departure_patterns` from entry n on: the loc returned,
\* or NoResult when the loop ends without returning
DepartureLoop(v, text_lower, n) ==
    IF n > Len(departure_patterns[v]) THEN NoResult
    ELSE LET phrase == departure_patterns[v][n][1]
             loc    == departure_patterns[v][n][2]
         IN  IF /\ Contains(phrase, text_lower)
                /\ ~HasSubsequent(v, RemainingText(text_lower, phrase))
             THEN loc
             ELSE DepartureLoop(v, text_lower, n + 1)

RECURSIVE PairsOf(_, _, _)
\* the (location_name, keyword) pairs of entries lo..hi of a table, in the
\* order the nested loops `for location_name, keywords` /
\* `for keyword in keywords` visit them
PairsOf(table, lo, hi) ==
    IF lo > hi THEN <<>>
    ELSE IF lo = hi
         THEN [k \in 1..Len(table[lo][2]) |-> <<table[lo][1], table[lo][2][k]>>]
         ELSE PairsOf(table, lo, (lo + hi) \div 2)
                  \o PairsOf(table, (lo + hi) \div 2 + 1, hi)

ScanOrder ==
    [v \in {"fleet", "destroyer"} |->
        PairsOf(LOCATION_KEYWORDS[v], 1, Len(LOCATION_KEYWORDS[v]))]

\* mutant of Visit: the index is compared with -1, not with last_position
VisitAnyFound(text_lower, pair, best) ==
    LET at == RFind(pair[2], text_lower)
    IN  IF at > -1 THEN <<at, pair[1]>> ELSE best

\* mutant of Visit: the comparison is not strict
VisitNotStrict(text_lower, pair, best) ==
    LET at == RFind(pair[2], text_lower)
    IN  IF at >= best[1] THEN <<at, pair[1]>> ELSE best

\* one visit of the rightmost search on best = <<last_position, last_match>>:
\* idx = text_lower.rfind(keyword); if idx > last_position: replace both
Visit(text_lower, pair, best) ==
    LET at == RFind(pair[2], text_lower)
    IN  IF at > best[1] THEN <<at, pair[1]>> ELSE best

RECURSIVE LocationLoop(_, _, _, _, _)
\* visits lo..hi of the rightmost search, in order, starting from best; the
\* range is taken in two halves, the second starting from the result of the
\* first (which is best itself when the first half replaced nothing)
LocationLoop(v, text_lower, lo, hi, best) ==
    IF lo > hi THEN best
    ELSE IF lo = hi THEN Visit(text_lower, ScanOrder[v][lo], best)
    ELSE LET half == LocationLoop(v, text_lower, lo, (lo + hi) \div 2, best)
         IN  IF half = best
             THEN LocationLoop(v, text_lower, (lo + hi) \div 2 + 1, hi, best)
             ELSE LocationLoop(v, text_lower, (lo + hi) \div 2 + 1, hi, half)

RECURSIVE FirstPairWithKeyword(_, _, _)
FirstPairWithKeyword(v, text_lower, n) ==
    IF n > Len(LOCATION_KEYWORDS[v]) THEN NoResult
    ELSE IF \E k \in 1..Len(LOCATION_KEYWORDS[v][n][2]) :
                Contains(LOCATION_KEYWORDS[v][n][2][k], text_lower)
         THEN LOCATION_KEYWORDS[v][n][1]
         ELSE FirstPairWithKeyword(v, text_lower, n + 1)

\* mutant of LastMatch: the first pair of the table with a keyword in the text
FirstTableMatch(v, text_lower) == FirstPairWithKeyword(v, text_lower, 1)

\* last_match after the search (NoResult stands for None)
LastMatch(v, text_lower) ==
    LocationLoop(v, text_lower, 1, Len(ScanOrder[v]), <<-1, NoResult>>)[2]

\* mutant of HomeportDefault: the WESTPAC branch is missing
HomeportDefaultNoWestpac(hp) ==
    IF hp = "PACIFIC" THEN "Pacific Ocean"
    ELSE "Atlantic Ocean"

\* mutant of HomeportDefault: the oceans are named as the regions are
HomeportDefaultRegionNames(hp) ==
    IF hp = "PACIFIC" THEN "Pacific"
    ELSE IF hp = "WESTPAC" THEN "Western Pacific"
    ELSE "Atlantic"

\* the default based on homeport
HomeportDefault(hp) ==
    IF hp = "PACIFIC" THEN "Pacific Ocean"
    ELSE IF hp = "WESTPAC" THEN "Western Pacific (WESTPAC)"
    ELSE "Atlantic Ocean"

\* the departure loop: returns loc, or falls through to the rightmost search
DepartureCheck ==
    /\ pc = "departure"
    /\ LET loc == DepartureLoop(variant, Lower(text), 1)
       IN  IF loc # NoResult
           THEN location' = loc /\ pc' = "returned_departure"
           ELSE location' = location /\ pc' = "rightmost"
    /\ UNCHANGED <<variant, apiVars, fetchVars, parseVars, text, homeport, scanVars, fleetVars>>

\* mutant of RightmostSearch: last_match is returned without the `if last_match`
RightmostSearchUnguarded ==
    /\ pc = "rightmost"
    /\ location' = LastMatch(variant, Lower(text))
    /\ pc' = "returned_match"
    /\ UNCHANGED <<variant, apiVars, fetchVars, parseVars, text, homeport, scanVars, fleetVars>>

\* the rightmost search: returns last_match, or falls through to the default
RightmostSearch ==
    /\ pc = "rightmost"
    /\ LET last_match == LastMatch(variant, Lower(text))
       IN  IF last_match # NoResult
           THEN location' = last_match /\ pc' = "returned_match"
           ELSE location' = location /\ pc' = "homeport"
    /\ UNCHANGED <<variant, apiVars, fetchVars, parseVars, text, homeport, scanVars, fleetVars>>

\* no location found: return the default based on homeport
ReturnHomeportDefault ==
    /\ pc = "homeport"
    /\ location' = HomeportDefault(homeport)
    /\ pc' = "returned_homeport"
    /\ UNCHANGED <<variant, apiVars, fetchVars, parseVars, text, homeport, scanVars, fleetVars>>

(***************************************************************************)
(* Inputs of categorize_location: sentences of up to MaxFrags fragments,   *)
(* and the homeport values of the ship tables plus one foreign value.      *)
(***************************************************************************)
FragPool ==
    {"Departed Norfolk", "departed san diego", "Yokosuka", "South China Sea",
     " on Jan 5 ", "No recent status found.", "departed rota"}

RECURSIVE Concat(_)
Concat(fs) == IF Len(fs) = 0 THEN "" ELSE fs[1] \o Concat(Tail(fs))

Sentences ==
    {Concat(fs) : fs \in UNION {[1..n -> FragPool] : n \in 1..MaxFrags}}

Homeports == {"PACIFIC", "WESTPAC", "ATLANTIC", "CENTCOM"}

InitLoc ==
    /\ variant \in Variants
    /\ text \in Sentences
    /\ homeport \in Homeports
    /\ pc = "departure"
    /\ location = NoResult
    /\ text_block = NoResult
    /\ lines = <<>>
    /\ current_year = "Unknown"
    /\ running_year = "Unknown"
    /\ processed_lines = <<>>
    /\ idx = 0
    /\ result = NoResult
    /\ last_found = <<-1, NoResult>>
    /\ scan_order = ScanOrder[variant]
    /\ date_str = NoResult
    /\ response = NoResponse
    /\ DvidsIdle
    /\ results = <<>>
    /\ location_groups = <<>>
    /\ group_index = 0
    /\ member_index = 0

NextLoc ==
    \/ DepartureCheck
    \/ RightmostSearch
    \/ ReturnHomeportDefault

SpecLoc == InitLoc /\ [][NextLoc]_vars

(***************************************************************************)
(* categorize_location with the rightmost search taken one keyword at a    *)
(* time: the departure loop, then one step per visit of the nested loops.  *)
(***************************************************************************)
MaxScanFrags == 2

\* last_match = None; last_position = -1
ScanStart ==
    /\ pc = "rightmost"
    /\ last_found' = <<-1, NoResult>>
    /\ idx' = 1
    /\ pc' = "scan"
    /\ UNCHANGED <<variant, apiVars, fetchVars, text_block, lines, current_year, running_year,
                   processed_lines, result, locVars, scan_order, fleetVars>>

\* one visit of `for location_name, keywords` / `for keyword in keywords`
ScanVisit ==
    /\ pc = "scan"
    /\ last_found' = Visit(Lower(text), scan_order[idx], last_found)
    /\ IF idx < Len(scan_order)
       THEN idx' = idx + 1 /\ pc' = "scan"
       ELSE idx' = idx /\ pc' = "scanned"
    /\ UNCHANGED <<variant, apiVars, fetchVars, text_block, lines, current_year, running_year,
                   processed_lines, result, locVars, scan_order, fleetVars>>

\* if last_match: return last_match; else go on to the homeport default
ScanReturn ==
    /\ pc = "scanned"
    /\ IF last_found[2] # NoResult
       THEN location' = last_found[2] /\ pc' = "returned_match"
       ELSE location' = location /\ pc' = "homeport"
    /\ UNCHANGED <<variant, apiVars, fetchVars, parseVars, text, homeport, scanVars, fleetVars>>

ScanPool ==
    {"Spratly Islands", " Spratly ", "Luzon", "Departed Norfolk", " at sea"}

ScanSentences ==
    {Concat(fs) : fs \in UNION {[1..n -> ScanPool] : n \in 1..MaxScanFrags}}

InitScan ==
    /\ variant \in Variants
    /\ text \in ScanSentences
    /\ homeport \in Homeports
    /\ pc = "departure"
    /\ location = NoResult
    /\ text_block = NoResult
    /\ lines = <<>>
    /\ current_year = "Unknown"
    /\ running_year = "Unknown"
    /\ processed_lines = <<>>
    /\ idx = 0
    /\ result = NoResult
    /\ last_found = <<-1, NoResult>>
    /\ scan_order = ScanOrder[variant]
    /\ date_str = NoResult
    /\ response = NoResponse
    /\ DvidsIdle
    /\ results = <<>>
    /\ location_groups = <<>>
    /\ group_index = 0
    /\ member_index = 0

NextScan ==
    \/ DepartureCheck
    \/ ScanStart
    \/ ScanVisit
    \/ ScanReturn
    \/ ReturnHomeportDefault

SpecScan == InitScan /\ [][NextScan]_vars

(***************************************************************************)
(* The same search when the pairs of LOCATION_KEYWORDS stand in another    *)
(* order in the table: reversed, rotated by half its length, or with       *)
(* neighbours exchanged.                                                   *)
(***************************************************************************)
MaxPermFrags == 2

Orders == {"table", "reversed", "rotated", "odd swapped", "even swapped"}

\* the position in the table of the pair that stands at position i of the
\* permuted table of n pairs
PermutedFrom(order, i, n) ==
    CASE order = "table"        -> i
      [] order = "reversed"     -> n + 1 - i
      [] order = "rotated"      -> ((i - 1 + n \div 2) % n) + 1
      [] order = "odd swapped"  -> IF i % 2 = 1 THEN (IF i < n THEN i + 1 ELSE i)
                                   ELSE i - 1
      [] order = "even swapped" -> IF i = 1 THEN 1
                                   ELSE IF i % 2 = 0 THEN (IF i < n THEN i + 1 ELSE i)
                                   ELSE i - 1

Permuted(pairs, order) ==
    [i \in 1..Len(pairs) |-> pairs[PermutedFrom(order, i, Len(pairs))]]

PermPool == {"Spratly Islands", "Luzon", " departed Norfolk", " at sea"}

PermSentences ==
    {Concat(fs) : fs \in UNION {[1..n -> PermPool] : n \in 1..MaxPermFrags}}

InitPermute ==
    /\ variant \in Variants
    /\ text \in PermSentences
    /\ homeport \in {"ATLANTIC", "WESTPAC"}
    /\ scan_order \in {Permuted(ScanOrder[variant], order) : order \in Orders}
    /\ pc = "departure"
    /\ location = NoResult
    /\ text_block = NoResult
    /\ lines = <<>>
    /\ current_year = "Unknown"
    /\ running_year = "Unknown"
    /\ processed_lines = <<>>
    /\ idx = 0
    /\ result = NoResult
    /\ last_found = <<-1, NoResult>>
    /\ date_str = NoResult
    /\ response = NoResponse
    /\ DvidsIdle
    /\ results = <<>>
    /\ location_groups = <<>>
    /\ group_index = 0
    /\ member_index = 0

NextPermute ==
    \/ DepartureCheck
    \/ ScanStart
    \/ ScanVisit
    \/ ScanReturn
    \/ ReturnHomeportDefault

SpecPermute == InitPermute /\ [][NextPermute]_vars

(***************************************************************************)
(* extract_date                                                            *)
(***************************************************************************)
MaxDateFrags == 3

\* the alternatives of (?:Jan|Feb|...|Dec), lower-cased (re.IGNORECASE)
MonthAbbreviations ==
    {"jan", "feb", "mar", "apr", "may", "jun", "jul", "aug", "sep", "oct",
     "nov", "dec"}

\* the characters [a-z] matches under re.IGNORECASE
LetterChars ==
    {SubSeq(LowerChars, k, k) : k \in 1..Len(LowerChars)}
        \cup {SubSeq(UpperChars, k, k) : k \in 1..Len(UpperChars)}

\* the characters \d matches
DigitChars == {"0", "1", "2", "3", "4", "5", "6", "7", "8", "9"}

\* the first position at or after p whose character is not in chars
\* (Len(s) + 1 when there is none): where a greedy run of chars from p stops
RunEnd(s, p, chars) ==
    LET stops == {q \in p..Len(s) : SubSeq(s, q, q) \notin chars}
    IN  IF stops = {} THEN Len(s) + 1 ELSE MinPos(stops)

\* the attempt of the pattern at position p: the position of the last
\* character of the match, or 0 when the pattern does not match at p.  Each
\* part is greedy, and giving back characters never helps a later part: the
\* month, then all letters, then a dot if there is one, then all white
\* space (at least one), then two digits if there are two, else one.
MatchEnd(s, p) ==
    IF p + 2 > Len(s) \/ Lower(SubSeq(s, p, p + 2)) \notin MonthAbbreviations
    THEN 0
    ELSE LET dot    == RunEnd(s, p + 3, LetterChars)
             space  == IF dot <= Len(s) /\ SubSeq(s, dot, dot) = "."
                       THEN dot + 1 ELSE dot
             digits == RunEnd(s, space, Whitespace)
         IN  IF digits = space \/ digits > Len(s) THEN 0
             ELSE IF SubSeq(s, digits, digits) \notin DigitChars THEN 0
             ELSE IF digits + 1 <= Len(s) /\ SubSeq(s, digits + 1, digits + 1) \in DigitChars
                  THEN digits + 1
                  ELSE digits

RECURSIVE FindAllDates(_, _)
\* re.findall(pattern, s, re.IGNORECASE) from position p: the match at the
\* leftmost position at or after p where the pattern matches, then the
\* matches after its end
FindAllDates(s, p) ==
    LET starts == {q \in p..(Len(s) - 2) : MatchEnd(s, q) > 0}
    IN  IF starts = {} THEN <<>>
        ELSE <<SubSeq(s, MinPos(starts), MatchEnd(s, MinPos(starts)))>>
                 \o FindAllDates(s, MatchEnd(s, MinPos(starts)) + 1)

\* mutant of extract_date: the first match is returned
extract_date_first(s) ==
    LET matches == FindAllDates(s, 1)
    IN  IF Len(matches) > 0 THEN matches[1] ELSE "Date Unspecified"

\* matches[-1] if matches else "Date Unspecified"
extract_date(s) ==
    LET matches == FindAllDates(s, 1)
    IN  IF Len(matches) > 0 THEN matches[Len(matches)] ELSE "Date Unspecified"

\* a call of extract_date
ExtractDate ==
    /\ pc = "extract"
    /\ date_str' = extract_date(text)
    /\ pc' = "returned_date"
    /\ UNCHANGED <<variant, apiVars, fetchVars, parseVars, locVars, scanVars, response, results,
                   location_groups, group_index, member_index>>

DatePool ==
    {"Jan. 8", " SEPTEMBER 26", "February arrived ", "Mar", " 123", ". 5",
     "novDec\n1"}

DateSentences ==
    {Concat(fs) : fs \in UNION {[1..n -> DatePool] : n \in 1..MaxDateFrags}}

InitDate ==
    /\ variant \in Variants
    /\ text \in DateSentences
    /\ pc = "extract"
    /\ homeport = NoResult
    /\ location = NoResult
    /\ text_block = NoResult
    /\ lines = <<>>
    /\ current_year = "Unknown"
    /\ running_year = "Unknown"
    /\ processed_lines = <<>>
    /\ idx = 0
    /\ result = NoResult
    /\ last_found = <<-1, NoResult>>
    /\ scan_order = ScanOrder[variant]
    /\ date_str = NoResult
    /\ response = NoResponse
    /\ DvidsIdle
    /\ results = <<>>
    /\ location_groups = <<>>
    /\ group_index = 0
    /\ member_index = 0

NextDate == ExtractDate

SpecDate == InitDate /\ [][NextDate]_vars

(***************************************************************************)
(* scrape_fleet and apply_location_offsets.  Coordinates are integers in   *)
(* millionths of a degree.                                                 *)
(***************************************************************************)
\* the entries of SHIP_DATABASE in iteration order (the first eighteen of
\* each scraper); ship_type holds 'type' for the fleet, 'flight' for the
\* destroyers
SHIP_DATABASE ==
    [fleet |->
       <<
         [hull |-> "CVN68", name |-> "USS Nimitz", class |-> "Nimitz", ship_type |-> "CVN",
          homeport |-> "PACIFIC", url |-> "http://uscarriers.net/cvn68history.htm"],
         [hull |-> "CVN69", name |-> "USS Dwight D. Eisenhower", class |-> "Nimitz", ship_type |-> "CVN",
          homeport |-> "ATLANTIC", url |-> "http://uscarriers.net/cvn69history.htm"],
         [hull |-> "CVN70", name |-> "USS Carl Vinson", class |-> "Nimitz", ship_type |-> "CVN",
          homeport |-> "PACIFIC", url |-> "http://uscarriers.net/cvn70history.htm"],
         [hull |-> "CVN71", name |-> "USS Theodore Roosevelt", class |-> "Nimitz", ship_type |-> "CVN",
          homeport |-> "PACIFIC", url |-> "http://uscarriers.net/cvn71history.htm"],
         [hull |-> "CVN72", name |-> "USS Abraham Lincoln", class |-> "Nimitz", ship_type |-> "CVN",
          homeport |-> "PACIFIC", url |-> "http://uscarriers.net/cvn72history.htm"],
         [hull |-> "CVN73", name |-> "USS George Washington", class |-> "Nimitz", ship_type |-> "CVN",
          homeport |-> "WESTPAC", url |-> "http://uscarriers.net/cvn73history.htm"],
         [hull |-> "CVN74", name |-> "USS John C. Stennis", class |-> "Nimitz", ship_type |-> "CVN",
          homeport |-> "ATLANTIC", url |-> "http://uscarriers.net/cvn74history.htm"],
         [hull |-> "CVN75", name |-> "USS Harry S. Truman", class |-> "Nimitz", ship_type |-> "CVN",
          homeport |-> "ATLANTIC", url |-> "http://uscarriers.net/cvn75history.htm"],
         [hull |-> "CVN76", name |-> "USS Ronald Reagan", class |-> "Nimitz", ship_type |-> "CVN",
          homeport |-> "PACIFIC", url |-> "http://uscarriers.net/cvn76history.htm"],
         [hull |-> "CVN77", name |-> "USS George H.W. Bush", class |-> "Nimitz", ship_type |-> "CVN",
          homeport |-> "ATLANTIC", url |-> "http://uscarriers.net/cvn77history.htm"],
         [hull |-> "CVN78", name |-> "USS Gerald R. Ford", class |-> "Ford", ship_type |-> "CVN",
          homeport |-> "ATLANTIC", url |-> "http://uscarriers.net/cvn78history.htm"],
         [hull |-> "LHD1", name |-> "USS Wasp", class |-> "Wasp", ship_type |-> "LHD",
          homeport |-> "ATLANTIC", url |-> "http://uscarriers.net/lhd1history.htm"],
         [hull |-> "LHD2", name |-> "USS Essex", class |-> "Wasp", ship_type |-> "LHD",
          homeport |-> "PACIFIC", url |-> "http://uscarriers.net/lhd2history.htm"],
         [hull |-> "LHD3", name |-> "USS Kearsarge", class |-> "Wasp", ship_type |-> "LHD",
          homeport |-> "ATLANTIC", url |-> "http://uscarriers.net/lhd3history.htm"],
         [hull |-> "LHD4", name |-> "USS Boxer", class |-> "Wasp", ship_type |-> "LHD",
          homeport |-> "PACIFIC", url |-> "http://uscarriers.net/lhd4history.htm"],
         [hull |-> "LHD5", name |-> "USS Bataan", class |-> "Wasp", ship_type |-> "LHD",
          homeport |-> "ATLANTIC", url |-> "http://uscarriers.net/lhd5history.htm"],
         [hull |-> "LHD7", name |-> "USS Iwo Jima", class |-> "Wasp", ship_type |-> "LHD",
          homeport |-> "ATLANTIC", url |-> "http://uscarriers.net/lhd7history.htm"],
         [hull |-> "LHD8", name |-> "USS Makin Island", class |-> "Wasp", ship_type |-> "LHD",
          homeport |-> "PACIFIC", url |-> "http://uscarriers.net/lhd8history.htm"]>>,
     destroyer |->
       <<
         [hull |-> "DDG51", name |-> "USS Arleigh Burke", class |-> "Arleigh Burke", ship_type |-> "I",
          homeport |-> "ATLANTIC", url |-> "http://uscarriers.net/ddg51history.htm"],
         [hull |-> "DDG52", name |-> "USS Barry", class |-> "Arleigh Burke", ship_type |-> "I",
          homeport |-> "PACIFIC", url |-> "http://uscarriers.net/ddg52history.htm"],
         [hull |-> "DDG53", name |-> "USS John Paul Jones", class |-> "Arleigh Burke", ship_type |-> "I",
          homeport |-> "PACIFIC", url |-> "http://uscarriers.net/ddg53history.htm"],
         [hull |-> "DDG54", name |-> "USS Curtis Wilbur", class |-> "Arleigh Burke", ship_type |-> "I",
          homeport |-> "WESTPAC", url |-> "http://uscarriers.net/ddg54history.htm"],
         [hull |-> "DDG55", name |-> "USS Stout", class |-> "Arleigh Burke", ship_type |-> "I",
          homeport |-> "ATLANTIC", url |-> "http://uscarriers.net/ddg55history.htm"],
         [hull |-> "DDG56", name |-> "USS John S. McCain", class |-> "Arleigh Burke", ship_type |-> "I",
          homeport |-> "WESTPAC", url |-> "http://uscarriers.net/ddg56history.htm"],
         [hull |-> "DDG57", name |-> "USS Mitscher", class |-> "Arleigh Burke", ship_type |-> "I",
          homeport |-> "ATLANTIC", url |-> "http://uscarriers.net/ddg57history.htm"],
         [hull |-> "DDG58", name |-> "USS Laboon", class |-> "Arleigh Burke", ship_type |-> "I",
          homeport |-> "ATLANTIC", url |-> "http://uscarriers.net/ddg58history.htm"],
         [hull |-> "DDG59", name |-> "USS Russell", class |-> "Arleigh Burke", ship_type |-> "I",
          homeport |-> "PACIFIC", url |-> "http://uscarriers.net/ddg59history.htm"],
         [hull |-> "DDG60", name |-> "USS Paul Hamilton", class |-> "Arleigh Burke", ship_type |-> "I",
          homeport |-> "PACIFIC", url |-> "http://uscarriers.net/ddg60history.htm"],
         [hull |-> "DDG61", name |-> "USS Ramage", class |-> "Arleigh Burke", ship_type |-> "I",
          homeport |-> "ATLANTIC", url |-> "http://uscarriers.net/ddg61history.htm"],
         [hull |-> "DDG62", name |-> "USS Fitzgerald", class |-> "Arleigh Burke", ship_type |-> "I",
          homeport |-> "PACIFIC", url |-> "http://uscarriers.net/ddg62history.htm"],
         [hull |-> "DDG63", name |-> "USS Stethem", class |-> "Arleigh Burke", ship_type |-> "I",
          homeport |-> "PACIFIC", url |-> "http://uscarriers.net/ddg63history.htm"],
         [hull |-> "DDG64", name |-> "USS Carney", class |-> "Arleigh Burke", ship_type |-> "I",
          homeport |-> "ATLANTIC", url |-> "http://uscarriers.net/ddg64history.htm"],
         [hull |-> "DDG65", name |-> "USS Benfold", class |-> "Arleigh Burke", ship_type |-> "I",
          homeport |-> "WESTPAC", url |-> "http://uscarriers.net/ddg65history.htm"],
         [hull |-> "DDG66", name |-> "USS Gonzalez", class |-> "Arleigh Burke", ship_type |-> "I",
          homeport |-> "ATLANTIC", url |-> "http://uscarriers.net/ddg66history.htm"],
         [hull |-> "DDG67", name |-> "USS Cole", class |-> "Arleigh Burke", ship_type |-> "I",
          homeport |-> "ATLANTIC", url |-> "http://uscarriers.net/ddg67history.htm"],
         [hull |-> "DDG68", name |-> "USS The Sullivans", class |-> "Arleigh Burke", ship_type |-> "I",
          homeport |-> "ATLANTIC", url |-> "http://uscarriers.net/ddg68history.htm"]>>]

\* LOCATION_COORDS as (location, {lat, lon, region}) pairs
LOCATION_COORDS ==
    [fleet |->
       <<
         <<"Norfolk / Portsmouth", [lat |-> 36947300, lon |-> -76313400, region |-> "CONUS"]>>,
         <<"San Diego", [lat |-> 32715700, lon |-> -117161100, region |-> "CONUS"]>>,
         <<"Bremerton / Kitsap", [lat |-> 47567300, lon |-> -122632900, region |-> "CONUS"]>>,
         <<"Newport News", [lat |-> 36978800, lon |-> -76428000, region |-> "CONUS"]>>,
         <<"Pearl Harbor", [lat |-> 21354500, lon |-> -157969800, region |-> "PACIFIC"]>>,
         <<"Mayport", [lat |-> 30391800, lon |-> -81428500, region |-> "CONUS"]>>,
         <<"Everett", [lat |-> 47979000, lon |-> -122202100, region |-> "CONUS"]>>,
         <<"Pascagoula", [lat |-> 30365800, lon |-> -88556100, region |-> "CONUS"]>>,
         <<"Yokosuka", [lat |-> 35283100, lon |-> 139670300, region |-> "WESTPAC"]>>,
         <<"Sasebo", [lat |-> 33159500, lon |-> 129723500, region |-> "WESTPAC"]>>,
         <<"Guam", [lat |-> 13444300, lon |-> 144793700, region |-> "WESTPAC"]>>,
         <<"Singapore", [lat |-> 1265500, lon |-> 103820000, region |-> "INDOPAC"]>>,
         <<"Bahrain", [lat |-> 26223500, lon |-> 50587600, region |-> "CENTCOM"]>>,
         <<"Dubai", [lat |-> 25258200, lon |-> 55304700, region |-> "CENTCOM"]>>,
         <<"Busan", [lat |-> 35102800, lon |-> 129040300, region |-> "WESTPAC"]>>,
         <<"Philippines", [lat |-> 14599500, lon |-> 120984200, region |-> "WESTPAC"]>>,
         <<"Malaysia", [lat |-> 3139000, lon |-> 101686900, region |-> "INDOPAC"]>>,
         <<"Okinawa", [lat |-> 26334400, lon |-> 127805600, region |-> "WESTPAC"]>>,
         <<"Ponce", [lat |-> 17980000, lon |-> -66614100, region |-> "SOUTHCOM"]>>,
         <<"South China Sea", [lat |-> 12000000, lon |-> 114000000, region |-> "WESTPAC"]>>,
         <<"Western Pacific (WESTPAC)", [lat |-> 15000000, lon |-> 135000000, region |-> "WESTPAC"]>>,
         <<"Philippine Sea", [lat |-> 20000000, lon |-> 130000000, region |-> "WESTPAC"]>>,
         <<"East China Sea", [lat |-> 28000000, lon |-> 125000000, region |-> "WESTPAC"]>>,
         <<"Red Sea", [lat |-> 20000000, lon |-> 38000000, region |-> "CENTCOM"]>>,
         <<"Persian Gulf", [lat |-> 27000000, lon |-> 51000000, region |-> "CENTCOM"]>>,
         <<"Gulf of Oman", [lat |-> 24500000, lon |-> 58500000, region |-> "CENTCOM"]>>,
         <<"Gulf of Aden", [lat |-> 12500000, lon |-> 47000000, region |-> "CENTCOM"]>>,
         <<"Arabian Sea", [lat |-> 15000000, lon |-> 65000000, region |-> "CENTCOM"]>>,
         <<"Mediterranean", [lat |-> 35000000, lon |-> 18000000, region |-> "EUCOM"]>>,
         <<"Caribbean Sea", [lat |-> 15500000, lon |-> -73000000, region |-> "SOUTHCOM"]>>,
         <<"North Sea", [lat |-> 56000000, lon |-> 3000000, region |-> "EUCOM"]>>,
         <<"Norwegian Sea", [lat |-> 68000000, lon |-> 5000000, region |-> "EUCOM"]>>,
         <<"Strait of Gibraltar", [lat |-> 35950000, lon |-> -5600000, region |-> "EUCOM"]>>,
         <<"Suez Canal", [lat |-> 30600000, lon |-> 32330000, region |-> "CENTCOM"]>>,
         <<"Bab el-Mandeb", [lat |-> 12583300, lon |-> 43333300, region |-> "CENTCOM"]>>,
         <<"Sea of Japan", [lat |-> 40000000, lon |-> 135000000, region |-> "WESTPAC"]>>,
         <<"Atlantic Ocean", [lat |-> 32000000, lon |-> -65000000, region |-> "ATLANTIC"]>>,
         <<"Pacific Ocean", [lat |-> 25000000, lon |-> -140000000, region |-> "PACIFIC"]>>,
         <<"Indian Ocean", [lat |-> -5000000, lon |-> 75000000, region |-> "INDOPAC"]>>>>,
     destroyer |->
       <<
         <<"Norfolk / Portsmouth", [lat |-> 36947300, lon |-> -76313400, region |-> "CONUS"]>>,
         <<"San Diego", [lat |-> 32715700, lon |-> -117161100, region |-> "CONUS"]>>,
         <<"Bremerton / Kitsap", [lat |-> 47567300, lon |-> -122632900, region |-> "CONUS"]>>,
         <<"Newport News", [lat |-> 36978800, lon |-> -76428000, region |-> "CONUS"]>>,
         <<"Pearl Harbor", [lat |-> 21354500, lon |-> -157969800, region |-> "PACIFIC"]>>,
         <<"Mayport", [lat |-> 30391800, lon |-> -81428500, region |-> "CONUS"]>>,
         <<"Everett", [lat |-> 47979000, lon |-> -122202100, region |-> "CONUS"]>>,
         <<"Pascagoula", [lat |-> 30365800, lon |-> -88556100, region |-> "CONUS"]>>,
         <<"Bath", [lat |-> 43910600, lon |-> -69820600, region |-> "CONUS"]>>,
         <<"Rota", [lat |-> 36617500, lon |-> -6349700, region |-> "EUCOM"]>>,
         <<"Yokosuka", [lat |-> 35283100, lon |-> 139670300, region |-> "WESTPAC"]>>,
         <<"Sasebo", [lat |-> 33159500, lon |-> 129723500, region |-> "WESTPAC"]>>,
         <<"Guam", [lat |-> 13444300, lon |-> 144793700, region |-> "WESTPAC"]>>,
         <<"Singapore", [lat |-> 1265500, lon |-> 103820000, region |-> "INDOPAC"]>>,
         <<"Bahrain", [lat |-> 26223500, lon |-> 50587600, region |-> "CENTCOM"]>>,
         <<"Dubai", [lat |-> 25258200, lon |-> 55304700, region |-> "CENTCOM"]>>,
         <<"Busan", [lat |-> 35102800, lon |-> 129040300, region |-> "WESTPAC"]>>,
         <<"Philippines", [lat |-> 14599500, lon |-> 120984200, region |-> "WESTPAC"]>>,
         <<"Malaysia", [lat |-> 3139000, lon |-> 101686900, region |-> "INDOPAC"]>>,
         <<"Okinawa", [lat |-> 26334400, lon |-> 127805600, region |-> "WESTPAC"]>>,
         <<"South China Sea", [lat |-> 12000000, lon |-> 114000000, region |-> "WESTPAC"]>>,
         <<"Western Pacific (WESTPAC)", [lat |-> 15000000, lon |-> 135000000, region |-> "WESTPAC"]>>,
         <<"Philippine Sea", [lat |-> 20000000, lon |-> 130000000, region |-> "WESTPAC"]>>,
         <<"East China Sea", [lat |-> 28000000, lon |-> 125000000, region |-> "WESTPAC"]>>,
         <<"Red Sea", [lat |-> 20000000, lon |-> 38000000, region |-> "CENTCOM"]>>,
         <<"Persian Gulf", [lat |-> 27000000, lon |-> 51000000, region |-> "CENTCOM"]>>,
         <<"Gulf of Oman", [lat |-> 24500000, lon |-> 58500000, region |-> "CENTCOM"]>>,
         <<"Gulf of Aden", [lat |-> 12500000, lon |-> 47000000, region |-> "CENTCOM"]>>,
         <<"Arabian Sea", [lat |-> 15000000, lon |-> 65000000, region |-> "CENTCOM"]>>,
         <<"Mediterranean", [lat |-> 35000000, lon |-> 18000000, region |-> "EUCOM"]>>,
         <<"Caribbean Sea", [lat |-> 15500000, lon |-> -73000000, region |-> "SOUTHCOM"]>>,
         <<"North Sea", [lat |-> 56000000, lon |-> 3000000, region |-> "EUCOM"]>>,
         <<"Norwegian Sea", [lat |-> 68000000, lon |-> 5000000, region |-> "EUCOM"]>>,
         <<"Strait of Gibraltar", [lat |-> 35950000, lon |-> -5600000, region |-> "EUCOM"]>>,
         <<"Suez Canal", [lat |-> 30600000, lon |-> 32330000, region |-> "CENTCOM"]>>,
         <<"Bab el-Mandeb", [lat |-> 12583300, lon |-> 43333300, region |-> "CENTCOM"]>>,
         <<"Sea of Japan", [lat |-> 40000000, lon |-> 135000000, region |-> "WESTPAC"]>>,
         <<"Baltic Sea", [lat |-> 55000000, lon |-> 15000000, region |-> "EUCOM"]>>,
         <<"Black Sea", [lat |-> 43000000, lon |-> 35000000, region |-> "EUCOM"]>>,
         <<"Atlantic Ocean", [lat |-> 32000000, lon |-> -65000000, region |-> "ATLANTIC"]>>,
         <<"Pacific Ocean", [lat |-> 25000000, lon |-> -140000000, region |-> "PACIFIC"]>>,
         <<"Indian Ocean", [lat |-> -5000000, lon |-> 75000000, region |-> "INDOPAC"]>>>>]

\* the number of angle units in a full turn: an angle a stands for
\* 2 * math.pi * a / TurnUnits (the least number every count up to 18 divides)
TurnUnits == 12252240

\* math.sin and math.cos of the angles 2 * math.pi * i / count, count up to 18,
\* as <<sin, cos>> in ten-thousandths, cut off after the fourth decimal
Trig ==
       (0 :> <<0, 10000>>) @@ (680680 :> <<3420, 9396>>)
    @@ (720720 :> <<3612, 9324>>) @@ (765765 :> <<3826, 9238>>)
    @@ (816816 :> <<4067, 9135>>) @@ (875160 :> <<4338, 9009>>)
    @@ (942480 :> <<4647, 8854>>) @@ (1021020 :> <<5000, 8660>>)
    @@ (1113840 :> <<5406, 8412>>) @@ (1225224 :> <<5877, 8090>>)
    @@ (1361360 :> <<6427, 7660>>) @@ (1441440 :> <<6736, 7390>>)
    @@ (1531530 :> <<7071, 7071>>) @@ (1633632 :> <<7431, 6691>>)
    @@ (1750320 :> <<7818, 6234>>) @@ (1884960 :> <<8229, 5680>>)
    @@ (2042040 :> <<8660, 5000>>) @@ (2162160 :> <<8951, 4457>>)
    @@ (2227680 :> <<9096, 4154>>) @@ (2297295 :> <<9238, 3826>>)
    @@ (2450448 :> <<9510, 3090>>) @@ (2625480 :> <<9749, 2225>>)
    @@ (2722720 :> <<9848, 1736>>) @@ (2827440 :> <<9927, 1205>>)
    @@ (2882880 :> <<9957, 922>>) @@ (3063060 :> <<10000, 0>>)
    @@ (3267264 :> <<9945, -1045>>) @@ (3341520 :> <<9898, -1423>>)
    @@ (3403400 :> <<9848, -1736>>) @@ (3500640 :> <<9749, -2225>>)
    @@ (3603600 :> <<9618, -2736>>) @@ (3675672 :> <<9510, -3090>>)
    @@ (3769920 :> <<9350, -3546>>) @@ (3828825 :> <<9238, -3826>>)
    @@ (4084080 :> <<8660, -5000>>) @@ (4324320 :> <<7980, -6026>>)
    @@ (4375800 :> <<7818, -6234>>) @@ (4455360 :> <<7557, -6548>>)
    @@ (4594590 :> <<7071, -7071>>) @@ (4712400 :> <<6631, -7485>>)
    @@ (4764760 :> <<6427, -7660>>) @@ (4900896 :> <<5877, -8090>>)
    @@ (5045040 :> <<5264, -8502>>) @@ (5105100 :> <<5000, -8660>>)
    @@ (5250960 :> <<4338, -9009>>) @@ (5360355 :> <<3826, -9238>>)
    @@ (5445440 :> <<3420, -9396>>) @@ (5569200 :> <<2817, -9594>>)
    @@ (5654880 :> <<2393, -9709>>) @@ (5717712 :> <<2079, -9781>>)
    @@ (5765760 :> <<1837, -9829>>) @@ (6126120 :> <<0, -10000>>)
    @@ (6486480 :> <<-1837, -9829>>) @@ (6534528 :> <<-2079, -9781>>)
    @@ (6597360 :> <<-2393, -9709>>) @@ (6683040 :> <<-2817, -9594>>)
    @@ (6806800 :> <<-3420, -9396>>) @@ (6891885 :> <<-3826, -9238>>)
    @@ (7001280 :> <<-4338, -9009>>) @@ (7147140 :> <<-5000, -8660>>)
    @@ (7207200 :> <<-5264, -8502>>) @@ (7351344 :> <<-5877, -8090>>)
    @@ (7487480 :> <<-6427, -7660>>) @@ (7539840 :> <<-6631, -7485>>)
    @@ (7657650 :> <<-7071, -7071>>) @@ (7796880 :> <<-7557, -6548>>)
    @@ (7876440 :> <<-7818, -6234>>) @@ (7927920 :> <<-7980, -6026>>)
    @@ (8168160 :> <<-8660, -5000>>) @@ (8423415 :> <<-9238, -3826>>)
    @@ (8482320 :> <<-9350, -3546>>) @@ (8576568 :> <<-9510, -3090>>)
    @@ (8648640 :> <<-9618, -2736>>) @@ (8751600 :> <<-9749, -2225>>)
    @@ (8848840 :> <<-9848, -1736>>) @@ (8910720 :> <<-9898, -1423>>)
    @@ (8984976 :> <<-9945, -1045>>) @@ (9189180 :> <<-10000, 0>>)
    @@ (9369360 :> <<-9957, 922>>) @@ (9424800 :> <<-9927, 1205>>)
    @@ (9529520 :> <<-9848, 1736>>) @@ (9626760 :> <<-9749, 2225>>)
    @@ (9801792 :> <<-9510, 3090>>) @@ (9954945 :> <<-9238, 3826>>)
    @@ (10024560 :> <<-9096, 4154>>) @@ (10090080 :> <<-8951, 4457>>)
    @@ (10210200 :> <<-8660, 5000>>) @@ (10367280 :> <<-8229, 5680>>)
    @@ (10501920 :> <<-7818, 6234>>) @@ (10618608 :> <<-7431, 6691>>)
    @@ (10720710 :> <<-7071, 7071>>) @@ (10810800 :> <<-6736, 7390>>)
    @@ (10890880 :> <<-6427, 7660>>) @@ (11027016 :> <<-5877, 8090>>)
    @@ (11138400 :> <<-5406, 8412>>) @@ (11231220 :> <<-5000, 8660>>)
    @@ (11309760 :> <<-4647, 8854>>) @@ (11377080 :> <<-4338, 9009>>)
    @@ (11435424 :> <<-4067, 9135>>) @@ (11486475 :> <<-3826, 9238>>)
    @@ (11531520 :> <<-3612, 9324>>) @@ (11571560 :> <<-3420, 9396>>)

\* the bounds of the scrape: the ships taken from the head of SHIP_DATABASE
MaxShips == 3

RECURSIVE AnnotateFrom(_, _, _)
\* the entries `for line in lines` appends from line k on, running being the
\* running year before line k
AnnotateFrom(ls, k, running) ==
    IF k > Len(ls) THEN <<>>
    ELSE LET ry == IF YearMatch(ls[k]) THEN YearMatchGroup(ls[k]) ELSE running
         IN  <<[text |-> ls[k], year |-> ry]>> \o AnnotateFrom(ls, k + 1, ry)

\* `for entry in reversed(processed_lines)`: the position of the entry the
\* scan returns at, or 0 when it runs to the end
ScanReversed(v, processed, years) ==
    LET hits == {k \in 1..Len(processed) : EntryReturned(v, processed[k], years)}
    IN  IF hits = {} THEN 0 ELSE MaxPos(hits)

\* parse_status_entry(text_block): the (year, status) it returns
parse_status_entry(v, block) ==
    LET now       == InitialYear(years_found(block))
        processed == AnnotateFrom(SplitLines(block), 1, now)
        first     == ScanReversed(v, processed, allowed_years)
        second    == ScanReversed(v, processed, fallback_years)
    IN  IF first > 0 THEN <<processed[first].year, processed[first].text>>
        ELSE IF second > 0 THEN <<processed[second].year, processed[second].text>>
        ELSE <<now, "No recent status found.">>

\* categorize_location(text, homeport): the tag it returns
categorize_location(v, sentence, hp) ==
    LET text_lower == Lower(sentence)
        loc        == DepartureLoop(v, text_lower, 1)
        found      == LastMatch(v, text_lower)
    IN  IF loc # NoResult THEN loc
        ELSE IF found # NoResult THEN found
        ELSE HomeportDefault(hp)

\* mutant of DateOrYear: the extracted string is kept as it is
DateOrYearKeepsSentinel(extracted, year) == extracted

\* if date_str == "Date Unspecified": date_str = year
DateOrYear(extracted, year) ==
    IF extracted = "Date Unspecified" THEN year ELSE extracted

\* the locations LOCATION_COORDS has an entry for
CoordKeys(v) == {LOCATION_COORDS[v][n][1] : n \in 1..Len(LOCATION_COORDS[v])}

\* LOCATION_COORDS[loc]
CoordsOf(v, loc) ==
    LOCATION_COORDS[v][CHOOSE n \in 1..Len(LOCATION_COORDS[v]) :
                           LOCATION_COORDS[v][n][1] = loc][2]

\* coords = LOCATION_COORDS.get(location); if not coords: the coordinates of
\* the ocean of the homeport
Coords(v, loc, hp) ==
    IF loc \in CoordKeys(v) THEN CoordsOf(v, loc)
    ELSE IF hp = "PACIFIC" THEN CoordsOf(v, "Pacific Ocean")
    ELSE IF hp = "WESTPAC" THEN CoordsOf(v, "Western Pacific (WESTPAC)")
    ELSE CoordsOf(v, "Atlantic Ocean")

\* the ShipStatus one iteration of the scrape loop builds for entry n of
\* SHIP_DATABASE from the text of its history page
ShipRecord(v, n, raw_text) ==
    LET ship_info == SHIP_DATABASE[v][n]
        parsed    == parse_status_entry(v, raw_text)
        loc       == categorize_location(v, parsed[2], ship_info.homeport)
        coords    == Coords(v, loc, ship_info.homeport)
    IN  [hull        |-> ship_info.hull,
         name        |-> ship_info.name,
         ship_class  |-> ship_info.class,
         ship_type   |-> ship_info.ship_type,
         location    |-> loc,
         lat         |-> coords.lat,
         lon         |-> coords.lon,
         region      |-> coords.region,
         date        |-> DateOrYear(extract_date(parsed[2]), parsed[1]),
         status      |-> parsed[2],
         source_url  |-> ship_info.url,
         display_lat |-> coords.lat,
         display_lon |-> coords.lon]

\* char_limit: int = 50000
char_limit == 50000

\* soup.get_text(separator='\n') of the history pages the site serves
Pages ==
    {" 2025 \n\nJanuary transited Red Sea. \n\nFebruary arrived Bahrain.\n",
     "2025\nMoored at Norfolk on Jan. 8",
     "2024\n  March 3 departed San Diego",
     "Ship history",
     "2025\nMoored at Norfolk on Jan. 8 after a STEERING ERROR"}

\* str(e) of the requests.RequestException a failed request raises
FetchErrors == {"404 Client Error"}

\* the outcomes of requests.get and raise_for_status
Responses ==
    [failed : {FALSE}, content : Pages] \cup [failed : {TRUE}, content : FetchErrors]

\* [line.strip() for line in full_text.split('\n') if line.strip()]
CleanLines(full_text) ==
    LET stripped == [k \in 1..Len(SplitLines(full_text)) |->
                        Strip(SplitLines(full_text)[k])]
    IN  SelectSeq(stripped, LAMBDA line : line # "")

\* fetch_history_text(url, char_limit) when requests.get has outcome r: the
\* tail of the stripped non-empty lines joined by "\n", or "ERROR: ..."
fetch_history_text(r, limit) ==
    IF r.failed THEN "ERROR: " \o r.content
    ELSE LET clean_text == JoinLines(CleanLines(r.content))
         IN  IF Len(clean_text) > limit
             THEN SubSeq(clean_text, Len(clean_text) - limit + 1, Len(clean_text))
             ELSE clean_text

\* mutant of ScrapeShip: the new record is put at the head of the list
ScrapeShipPrepends ==
    /\ pc = "scrape"
    /\ idx <= MaxShips
    /\ \E r \in Responses :
          LET raw_text == fetch_history_text(r, char_limit)
          IN  /\ response' = r
              /\ IF Contains("ERROR", raw_text)
                 THEN UNCHANGED <<results, text_block, result, locVars, date_str>>
                 ELSE LET ship_status == ShipRecord(variant, idx, raw_text)
                      IN  /\ results' = <<ship_status>> \o results
                          /\ text_block' = raw_text
                          /\ result' = parse_status_entry(variant, raw_text)
                          /\ text' = ship_status.status
                          /\ homeport' = SHIP_DATABASE[variant][idx].homeport
                          /\ location' = ship_status.location
                          /\ date_str' = extract_date(ship_status.status)
    /\ idx' = idx + 1
    /\ pc' = "scrape"
    /\ UNCHANGED <<variant, apiVars, fetchVars, lines, current_year, running_year, processed_lines,
                   scanVars, location_groups, group_index, member_index>>

\* one iteration of `for i, (hull, ship_info) in enumerate(SHIP_DATABASE.items(), 1)`:
\* the page is fetched; unless it holds "ERROR", parse_status_entry,
\* categorize_location and extract_date are called (their arguments and
\* results are kept) and the ShipStatus is appended
ScrapeShip ==
    /\ pc = "scrape"
    /\ idx <= MaxShips
    /\ \E r \in Responses :
          LET raw_text == fetch_history_text(r, char_limit)
          IN  /\ response' = r
              /\ IF Contains("ERROR", raw_text)
                 THEN UNCHANGED <<results, text_block, result, locVars, date_str>>
                 ELSE LET ship_status == ShipRecord(variant, idx, raw_text)
                      IN  /\ results' = Append(results, ship_status)
                          /\ text_block' = raw_text
                          /\ result' = parse_status_entry(variant, raw_text)
                          /\ text' = ship_status.status
                          /\ homeport' = SHIP_DATABASE[variant][idx].homeport
                          /\ location' = ship_status.location
                          /\ date_str' = extract_date(ship_status.status)
    /\ idx' = idx + 1
    /\ pc' = "scrape"
    /\ UNCHANGED <<variant, apiVars, fetchVars, lines, current_year, running_year, processed_lines,
                   scanVars, location_groups, group_index, member_index>>

\* mutant of CallOffsets: the call is inside the loop, after the first append
CallOffsetsInsideLoop ==
    /\ pc = "scrape"
    /\ idx > 1
    /\ location_groups' = <<>>
    /\ idx' = 1
    /\ pc' = "group"
    /\ UNCHANGED <<variant, apiVars, fetchVars, text_block, lines, current_year, running_year,
                   processed_lines, result, locVars, scanVars, date_str,
                   response, results, group_index, member_index>>

\* the loop is over: apply_location_offsets(results) is called;
\* location_groups = defaultdict(list)
CallOffsets ==
    /\ pc = "scrape"
    /\ idx > MaxShips
    /\ location_groups' = <<>>
    /\ idx' = 1
    /\ pc' = "group"
    /\ UNCHANGED <<variant, apiVars, fetchVars, text_block, lines, current_year, running_year,
                   processed_lines, result, locVars, scanVars, date_str,
                   response, results, group_index, member_index>>

\* location_groups[loc].append(ship): ref is the position of the ship in the
\* list; a new location is added after the ones the dict already has
AppendToGroup(groups, loc, ref) ==
    IF \E g \in 1..Len(groups) : groups[g].location = loc
    THEN [g \in 1..Len(groups) |->
             IF groups[g].location = loc
             THEN [groups[g] EXCEPT !.group = Append(@, ref)]
             ELSE groups[g]]
    ELSE Append(groups, [location |-> loc, group |-> <<ref>>])

\* one iteration of `for ship in ships`, or the end of that loop
GroupShip ==
    /\ pc = "group"
    /\ IF idx <= Len(results)
       THEN /\ location_groups' =
                   AppendToGroup(location_groups, results[idx].location, idx)
            /\ idx' = idx + 1
            /\ pc' = "group"
            /\ UNCHANGED <<group_index, member_index>>
       ELSE /\ location_groups' = location_groups
            /\ idx' = idx
            /\ pc' = "place"
            /\ group_index' = 1
            /\ member_index' = 0
    /\ UNCHANGED <<variant, apiVars, fetchVars, text_block, lines, current_year, running_year,
                   processed_lines, result, locVars, scanVars, date_str,
                   response, results>>

\* offset_distance for a group of count ships, in tenths of a degree
offset_distance(v, count) ==
    IF v = "fleet"
    THEN IF count <= 3 THEN 30
         ELSE IF count <= 5 THEN 40
         ELSE IF count <= 8 THEN 50
         ELSE 60
    ELSE IF count <= 3 THEN 20
         ELSE IF count <= 6 THEN 25
         ELSE IF count <= 10 THEN 30
         ELSE IF count <= 15 THEN 35
         ELSE 40

\* mutant of radius: the two scrapers stagger alike
radius_same_stagger(v, count, i) ==
    (offset_distance(v, count) * (100 + 15 * (i % 2))) \div 10

\* radius = offset_distance * (1.0 + 0.15 * (i % 2)), for the destroyers
\* offset_distance * (1.0 + 0.1 * (i % 3)); in hundredths of a degree
radius(v, count, i) ==
    IF v = "fleet"
    THEN (offset_distance(v, count) * (100 + 15 * (i % 2))) \div 10
    ELSE (offset_distance(v, count) * (100 + 10 * (i % 3))) \div 10

\* mutant of angle: i / count is an integer division
angle_floor(count, i) == TurnUnits * (i \div count)

\* angle = (2 * math.pi * i) / count, in units of 2 * math.pi / TurnUnits
angle(count, i) == (TurnUnits * i) \div count

\* mutant of PlaceAlone: a ship alone at its location is left as it is
PlaceAloneSkipped(ship) == ship

\* group[0].display_lat = group[0].lat; group[0].display_lon = group[0].lon
PlaceAlone(ship) ==
    [ship EXCEPT !.display_lat = ship.lat, !.display_lon = ship.lon]

\* mutant of PlaceOnRing: the offset is added to the coordinates themselves
PlaceOnRingMovesBase(v, ship, count, i) ==
    [ship EXCEPT
        !.lat = ship.lat + radius(v, count, i) * Trig[angle(count, i)][1],
        !.lon = ship.lon + radius(v, count, i) * Trig[angle(count, i)][2],
        !.display_lat = ship.lat + radius(v, count, i) * Trig[angle(count, i)][1],
        !.display_lon = ship.lon + radius(v, count, i) * Trig[angle(count, i)][2]]

\* ship.display_lat = ship.lat + radius * math.sin(angle);
\* ship.display_lon = ship.lon + radius * math.cos(angle)
PlaceOnRing(v, ship, count, i) ==
    [ship EXCEPT
        !.display_lat = ship.lat + radius(v, count, i) * Trig[angle(count, i)][1],
        !.display_lon = ship.lon + radius(v, count, i) * Trig[angle(count, i)][2]]

\* one assignment of display coordinates in
\* `for location, group in location_groups.items()`, or `return ships`
PlaceShip ==
    /\ pc = "place"
    /\ IF group_index > Len(location_groups)
       THEN /\ pc' = "returned_offsets"
            /\ UNCHANGED <<results, group_index, member_index>>
       ELSE LET group == location_groups[group_index].group
                count == Len(group)
                ship  == group[member_index + 1]
            IN  /\ pc' = "place"
                /\ results' =
                      [results EXCEPT ![ship] =
                          IF count = 1
                          THEN PlaceAlone(results[ship])
                          ELSE PlaceOnRing(variant, results[ship], count, member_index)]
                /\ IF member_index + 1 < count
                   THEN member_index' = member_index + 1 /\ group_index' = group_index
                   ELSE member_index' = 0 /\ group_index' = group_index + 1
    /\ UNCHANGED <<variant, apiVars, fetchVars, text_block, lines, current_year, running_year,
                   processed_lines, idx, result, locVars, scanVars, date_str,
                   response, location_groups>>

\* results = apply_location_offsets(results); return results
ScrapeReturn ==
    /\ pc = "returned_offsets"
    /\ pc' = "returned_fleet"
    /\ UNCHANGED <<variant, apiVars, fetchVars, parseVars, locVars, scanVars, fleetVars>>

InitScrape ==
    /\ variant \in Variants
    /\ pc = "scrape"
    /\ idx = 1
    /\ results = <<>>
    /\ text = NoResult
    /\ homeport = NoResult
    /\ location = NoResult
    /\ text_block = NoResult
    /\ lines = <<>>
    /\ current_year = "Unknown"
    /\ running_year = "Unknown"
    /\ processed_lines = <<>>
    /\ result = NoResult
    /\ last_found = <<-1, NoResult>>
    /\ scan_order = ScanOrder[variant]
    /\ date_str = NoResult
    /\ response = NoResponse
    /\ DvidsIdle
    /\ location_groups = <<>>
    /\ group_index = 0
    /\ member_index = 0

NextScrape ==
    \/ ScrapeShip
    \/ CallOffsets
    \/ GroupShip
    \/ PlaceShip
    \/ ScrapeReturn

SpecScrape == InitScrape /\ [][NextScrape]_vars

(***************************************************************************)
(* apply_location_offsets on its own: lists of ShipStatus objects as       *)
(* scrape_fleet builds them, up to MaxMixed ships over two locations and   *)
(* up to MaxCrowd ships at one location; display_lat and display_lon are   *)
(* as the constructor call sets them or the defaults of the dataclass.     *)
(***************************************************************************)
MaxMixed == 4
MaxCrowd == 16

OffsetPages == {"2025\nMoored at Norfolk on Jan. 8", "2024\nMarch 3 departed San Diego"}

\* display_lat: float = 0.0; display_lon: float = 0.0
DefaultDisplay(ship) == [ship EXCEPT !.display_lat = 0, !.display_lon = 0]

MixedLists(v) ==
    UNION {{[k \in 1..n |-> IF defaults[k]
                            THEN DefaultDisplay(ShipRecord(v, k, pages[k]))
                            ELSE ShipRecord(v, k, pages[k])] :
               pages \in [1..n -> OffsetPages], defaults \in [1..n -> BOOLEAN]} :
           n \in 0..MaxMixed}

CrowdLists(v) ==
    {[k \in 1..n |-> ShipRecord(v, k, "2025\nMoored at Norfolk on Jan. 8")] :
        n \in (MaxMixed + 1)..MaxCrowd}

\* apply_location_offsets(ships): location_groups = defaultdict(list)
InitOffsets ==
    /\ variant \in Variants
    /\ results \in MixedLists(variant) \cup CrowdLists(variant)
    /\ pc = "group"
    /\ idx = 1
    /\ location_groups = <<>>
    /\ group_index = 0
    /\ member_index = 0
    /\ text = NoResult
    /\ homeport = NoResult
    /\ location = NoResult
    /\ text_block = NoResult
    /\ lines = <<>>
    /\ current_year = "Unknown"
    /\ running_year = "Unknown"
    /\ processed_lines = <<>>
    /\ result = NoResult
    /\ last_found = <<-1, NoResult>>
    /\ scan_order = ScanOrder[variant]
    /\ date_str = NoResult
    /\ response = NoResponse
    /\ DvidsIdle

NextOffsets ==
    \/ GroupShip
    \/ PlaceShip

SpecOffsets == InitOffsets /\ [][NextOffsets]_vars

(***************************************************************************)
(* categorize_location called with a sentence that is one keyword of the   *)
(* table of the scraper, for each homeport.                                *)
(***************************************************************************)
KeywordSentences(v) == {ScanOrder[v][n][2] : n \in 1..Len(ScanOrder[v])}

InitKeyword ==
    /\ variant \in Variants
    /\ text \in KeywordSentences(variant)
    /\ homeport \in Homeports
    /\ pc = "departure"
    /\ location = NoResult
    /\ text_block = NoResult
    /\ lines = <<>>
    /\ current_year = "Unknown"
    /\ running_year = "Unknown"
    /\ processed_lines = <<>>
    /\ idx = 0
    /\ result = NoResult
    /\ last_found = <<-1, NoResult>>
    /\ scan_order = ScanOrder[variant]
    /\ date_str = NoResult
    /\ response = NoResponse
    /\ DvidsIdle
    /\ results = <<>>
    /\ location_groups = <<>>
    /\ group_index = 0
    /\ member_index = 0

NextKeyword ==
    \/ DepartureCheck
    \/ RightmostSearch

SpecKeyword == InitKeyword /\ [][NextKeyword]_vars

(***************************************************************************)
(* make_api_request of dvids_scraper: up to `retries` calls of             *)
(* requests.get.  A call gives a response with a status code and a body,   *)
(* or raises a requests.RequestException.  response.json() of a body that  *)
(* is no JSON raises; depending on the version of requests the exception   *)
(* is a RequestException (caught by the loop) or a plain ValueError (it    *)
(* leaves the function).                                                   *)
(***************************************************************************)
MaxRetries == 3

NoBody == "<!DOCTYPE html>"

\* what one call of requests.get gives
ApiOutcomes ==
    {[raised |-> FALSE, status_code |-> 200, body |-> "{\"results\": [1]}"],
     [raised |-> FALSE, status_code |-> 200, body |-> "{\"results\": [2]}"],
     [raised |-> FALSE, status_code |-> 200, body |-> NoBody],
     [raised |-> FALSE, status_code |-> 403, body |-> ""],
     [raised |-> FALSE, status_code |-> 429, body |-> ""],
     [raised |-> FALSE, status_code |-> 500, body |-> "Internal Server Error"],
     [raised |-> TRUE, status_code |-> 0, body |-> "ConnectionError"]}

\* the except clause: sleep unless this was the last attempt; then the loop
\* goes on
RequestError(r) ==
    /\ api_responses' = Append(api_responses, r)
    /\ wait_times' = Append(wait_times, IF attempt < retries - 1 THEN 2^attempt ELSE 0)
    /\ attempt' = attempt + 1
    /\ pc' = "request"
    /\ api_return' = api_return

\* mutant of ApiAttempt: a 403 is logged like any other status and retried
ApiAttemptRetries403 ==
    /\ pc = "request"
    /\ attempt < retries
    /\ \E r \in ApiOutcomes :
          IF r.raised THEN RequestError(r)
          ELSE IF r.status_code = 200 /\ r.body # NoBody
          THEN /\ api_responses' = Append(api_responses, r)
               /\ api_return' = r.body
               /\ pc' = "returned_api"
               /\ UNCHANGED <<attempt, wait_times>>
          ELSE IF r.status_code = 200
          THEN \/ RequestError(r)
               \/ /\ api_responses' = Append(api_responses, r)
                  /\ pc' = "raised_api"
                  /\ UNCHANGED <<attempt, wait_times, api_return>>
          ELSE IF r.status_code = 429
          THEN /\ api_responses' = Append(api_responses, r)
               /\ wait_times' = Append(wait_times, 2^attempt)
               /\ attempt' = attempt + 1
               /\ pc' = "request"
               /\ api_return' = api_return
          ELSE /\ api_responses' = Append(api_responses, r)
               /\ wait_times' = Append(wait_times, 0)
               /\ attempt' = attempt + 1
               /\ pc' = "request"
               /\ api_return' = api_return
    /\ UNCHANGED <<variant, retries, fetchVars, parseVars, locVars, scanVars, fleetVars>>

\* one iteration of `for attempt in range(retries)`
ApiAttempt ==
    /\ pc = "request"
    /\ attempt < retries
    /\ \E r \in ApiOutcomes :
          IF r.raised THEN RequestError(r)
          ELSE IF r.status_code = 200 /\ r.body # NoBody
          THEN /\ api_responses' = Append(api_responses, r)
               /\ api_return' = r.body
               /\ pc' = "returned_api"
               /\ UNCHANGED <<attempt, wait_times>>
          ELSE IF r.status_code = 200
          THEN \/ RequestError(r)
               \/ /\ api_responses' = Append(api_responses, r)
                  /\ pc' = "raised_api"
                  /\ UNCHANGED <<attempt, wait_times, api_return>>
          ELSE IF r.status_code = 403
          THEN /\ api_responses' = Append(api_responses, r)
               /\ api_return' = "None"
               /\ pc' = "returned_api"
               /\ UNCHANGED <<attempt, wait_times>>
          ELSE IF r.status_code = 429
          THEN /\ api_responses' = Append(api_responses, r)
               /\ wait_times' = Append(wait_times, 2^attempt)
               /\ attempt' = attempt + 1
               /\ pc' = "request"
               /\ api_return' = api_return
          ELSE /\ api_responses' = Append(api_responses, r)
               /\ wait_times' = Append(wait_times, 0)
               /\ attempt' = attempt + 1
               /\ pc' = "request"
               /\ api_return' = api_return
    /\ UNCHANGED <<variant, retries, fetchVars, parseVars, locVars, scanVars, fleetVars>>

\* the loop is over: return None
ApiGiveUp ==
    /\ pc = "request"
    /\ attempt >= retries
    /\ api_return' = "None"
    /\ pc' = "returned_api"
    /\ UNCHANGED <<variant, retries, attempt, api_responses, wait_times, fetchVars,
                   parseVars, locVars, scanVars, fleetVars>>

InitApi ==
    /\ variant = "dvids"
    /\ pc = "request"
    /\ retries \in 0..MaxRetries
    /\ attempt = 0
    /\ api_responses = <<>>
    /\ wait_times = <<>>
    /\ api_return = NoResult
    /\ query_index = 0
    /\ search_results = <<>>
    /\ item_index = 0
    /\ parsed_items = <<>>
    /\ seen_ids = {}
    /\ all_items = <<>>
    /\ text = NoResult
    /\ homeport = NoResult
    /\ location = NoResult
    /\ text_block = NoResult
    /\ lines = <<>>
    /\ current_year = "Unknown"
    /\ running_year = "Unknown"
    /\ processed_lines = <<>>
    /\ idx = 0
    /\ result = NoResult
    /\ last_found = <<-1, NoResult>>
    /\ scan_order = <<>>
    /\ date_str = NoResult
    /\ response = NoResponse
    /\ results = <<>>
    /\ location_groups = <<>>
    /\ group_index = 0
    /\ member_index = 0

NextApi ==
    \/ ApiAttempt
    \/ ApiGiveUp

\* the function runs to its end: a sleep is over after its time and
\* requests.get returns or raises within its timeout
SpecApi == InitApi /\ [][NextApi]_vars /\ WF_vars(NextApi)

(***************************************************************************)
(* The fetch loops: fetch_daily_content of dvids_scraper and               *)
(* fetch_all_dvids_content of geoint_scraper.  A query returns a list of   *)
(* raw items; an item carries an "id" or none, and parse_dvids_item        *)
(* returns None for an item it cannot parse.  Timestamps are numbers that  *)
(* stand in the order of the ISO strings.                                  *)
(***************************************************************************)
MaxBranches == 2
MaxTypes == 2

BRANCHES == <<"Navy", "Marines", "Coast Guard", "Joint">>
CONTENT_TYPES == <<"news", "image", "video">>

\* the queries of `for branch in branches: for content_type in CONTENT_TYPES`
NumQueries == MaxBranches * MaxTypes
QueryBranch(q) == BRANCHES[((q - 1) \div MaxTypes) + 1]
QueryType(q) == CONTENT_TYPES[((q - 1) % MaxTypes) + 1]

Scrapers == {"dvids", "geoint"}

RawA == [has_id |-> TRUE, id |-> "101", title |-> "A", timestamp |-> 3, parses |-> TRUE]
RawB == [has_id |-> TRUE, id |-> "101", title |-> "B", timestamp |-> 5, parses |-> TRUE]
RawC == [has_id |-> TRUE, id |-> "202", title |-> "C", timestamp |-> 4, parses |-> TRUE]
RawD == [has_id |-> TRUE, id |-> "303", title |-> "D", timestamp |-> 4, parses |-> FALSE]
RawE == [has_id |-> FALSE, id |-> "", title |-> "E", timestamp |-> 5, parses |-> TRUE]

\* what search_dvids / fetch_dvids_content return for a query
ResultLists ==
    {<<>>, <<RawB, RawA>>, <<RawC, RawD>>, <<RawE, RawA>>}

NoItem == [id |-> "None", title |-> "", timestamp |-> 0]

\* item_id: str(raw_item.get("id", "")) in dvids_scraper,
\* f"{content_type}:{item.get('id', '')}" in geoint_scraper
ItemId(v, raw, content_type) ==
    LET raw_id == IF raw.has_id THEN raw.id ELSE ""
    IN  IF v = "dvids" THEN raw_id ELSE content_type \o ":" \o raw_id

\* parse_dvids_item: the DVIDSItem, or None (NoItem) when parsing raised
parse_dvids_item(v, raw, content_type) ==
    IF raw.parses
    THEN [id |-> ItemId(v, raw, content_type), title |-> raw.title,
          timestamp |-> raw.timestamp]
    ELSE NoItem

\* list.sort(key=lambda x: x.timestamp, reverse=True): a stable sort, items
\* of equal timestamp keep their order
SortNewestFirst(items) ==
    LET rank(k) == Cardinality({j \in 1..Len(items) :
                        \/ items[j].timestamp > items[k].timestamp
                        \/ items[j].timestamp = items[k].timestamp /\ j < k})
    IN  [n \in 1..Len(items) |->
            items[CHOOSE k \in 1..Len(items) : rank(k) = n - 1]]

\* results = search_dvids(...) for the next (branch, content_type)
FetchQuery ==
    /\ pc = "fetch"
    /\ query_index <= NumQueries
    /\ search_results' \in ResultLists
    /\ item_index' = 1
    /\ pc' = "items"
    /\ UNCHANGED <<variant, apiVars, query_index, parsed_items, seen_ids, all_items,
                   parseVars, locVars, scanVars, fleetVars>>

\* mutant of ParseItem: the id is not added to seen_ids
ParseItemNeverSeen ==
    /\ pc = "items"
    /\ item_index <= Len(search_results)
    /\ LET item == parse_dvids_item(variant, search_results[item_index],
                                    QueryType(query_index))
       IN  /\ parsed_items' = IF item # NoItem THEN Append(parsed_items, item)
                              ELSE parsed_items
           /\ IF item # NoItem /\ item.id \notin seen_ids
              THEN /\ seen_ids' = seen_ids
                   /\ all_items' = Append(all_items, item)
              ELSE UNCHANGED <<seen_ids, all_items>>
    /\ item_index' = item_index + 1
    /\ pc' = "items"
    /\ UNCHANGED <<variant, apiVars, query_index, search_results,
                   parseVars, locVars, scanVars, fleetVars>>

\* one iteration of `for raw_item in results`
ParseItem ==
    /\ pc = "items"
    /\ item_index <= Len(search_results)
    /\ LET item == parse_dvids_item(variant, search_results[item_index],
                                    QueryType(query_index))
       IN  /\ parsed_items' = IF item # NoItem THEN Append(parsed_items, item)
                              ELSE parsed_items
           /\ IF item # NoItem /\ item.id \notin seen_ids
              THEN /\ seen_ids' = seen_ids \cup {item.id}
                   /\ all_items' = Append(all_items, item)
              ELSE UNCHANGED <<seen_ids, all_items>>
    /\ item_index' = item_index + 1
    /\ pc' = "items"
    /\ UNCHANGED <<variant, apiVars, query_index, search_results,
                   parseVars, locVars, scanVars, fleetVars>>

\* the inner loop is over: time.sleep(0.5), then the next query
EndQuery ==
    /\ pc = "items"
    /\ item_index > Len(search_results)
    /\ query_index' = query_index + 1
    /\ pc' = "fetch"
    /\ UNCHANGED <<variant, apiVars, search_results, item_index, parsed_items,
                   seen_ids, all_items, parseVars, locVars, scanVars, fleetVars>>

\* the loops are over: all_items.sort(...); return all_items
SortAndReturn ==
    /\ pc = "fetch"
    /\ query_index > NumQueries
    /\ all_items' = SortNewestFirst(all_items)
    /\ pc' = "returned_items"
    /\ UNCHANGED <<variant, apiVars, query_index, search_results, item_index,
                   parsed_items, seen_ids, parseVars, locVars, scanVars, fleetVars>>

InitFetch ==
    /\ variant \in Scrapers
    /\ pc = "fetch"
    /\ query_index = 1
    /\ search_results = <<>>
    /\ item_index = 0
    /\ parsed_items = <<>>
    /\ seen_ids = {}
    /\ all_items = <<>>
    /\ retries = 0
    /\ attempt = 0
    /\ api_responses = <<>>
    /\ wait_times = <<>>
    /\ api_return = NoResult
    /\ text = NoResult
    /\ homeport = NoResult
    /\ location = NoResult
    /\ text_block = NoResult
    /\ lines = <<>>
    /\ current_year = "Unknown"
    /\ running_year = "Unknown"
    /\ processed_lines = <<>>
    /\ idx = 0
    /\ result = NoResult
    /\ last_found = <<-1, NoResult>>
    /\ scan_order = <<>>
    /\ date_str = NoResult
    /\ response = NoResponse
    /\ results = <<>>
    /\ location_groups = <<>>
    /\ group_index = 0
    /\ member_index = 0

NextFetch ==
    \/ FetchQuery
    \/ ParseItem
    \/ EndQuery
    \/ SortAndReturn

SpecFetch == InitFetch /\ [][NextFetch]_vars

(***************************************************************************)
(* Properties of parse_status_entry.  The Claim* definitions restate the   *)
(* wording of the properties on the input block; they do not use the scan  *)
(* operators of the function.                                              *)
(***************************************************************************)
Sentinel == "No recent status found."
PrimaryYears == {"2025", "2026", "2027"}
SecondaryYears == {"2024"}
Returned == {"returned_primary", "returned_secondary", "returned_default"}
Annotated == {"primary", "secondary", "fallback"} \cup Returned

Digits == {"0", "1", "2", "3", "4", "5", "6", "7", "8", "9"}

\* the greatest member of a non-empty set of line numbers
ClaimLast(S) == CHOOSE k \in S : \A m \in S : m <= k

\* the line contains an activity keyword as a case-insensitive substring
ClaimHasKeyword(line) ==
    \E k \in 1..Len(keywords[variant]) :
        \E p \in 1..Len(line) :
            /\ p + Len(keywords[variant][k]) - 1 <= Len(line)
            /\ Lower(SubSeq(line, p, p + Len(keywords[variant][k]) - 1))
                   = keywords[variant][k]

\* the line is a 'from ... - ' caption: lower-cased and trimmed it starts with
\* "from ", and it contains " - "
ClaimIsCaption(line) ==
    /\ \E p \in 1..(Len(line) - 4) :
          /\ \A q \in 1..(p - 1) : SubSeq(line, q, q) \in Whitespace
          /\ Lower(SubSeq(line, p, p + 4)) = "from "
    /\ \E p \in 1..(Len(line) - 2) : SubSeq(line, p, p + 2) = " - "

\* line k of the block satisfies (a)-(c) for the year set Y
ClaimQualifies(k, Y) ==
    /\ processed_lines[k].year \in Y
    /\ ClaimHasKeyword(processed_lines[k].text)
    /\ ~ClaimIsCaption(processed_lines[k].text)

ClaimQualifying(Y) == {k \in 1..Len(processed_lines) : ClaimQualifies(k, Y)}

\* the block holds no year token of the range 2023-2027
ClaimNoYearToken == \A y \in YearTokens : ~Contains(y, text_block)

\* line k begins with a year token of the range 2023-2027
ClaimIsHeader(k) == \E y \in YearTokens : StartsWith(lines[k], y)

\* line k begins with a 4-digit year that is outside 2023-2027
ClaimIsForeignYear(k) ==
    /\ Len(lines[k]) >= 4
    /\ \A q \in 1..4 : SubSeq(lines[k], q, q) \in Digits
    /\ SubSeq(lines[k], 1, 4) \notin YearTokens

\* the running year at line k: the year of the nearest header line at or above
\* k, or the initial current year
ClaimRunningYear(k) ==
    IF \E h \in 1..k : ClaimIsHeader(h)
    THEN LET h == ClaimLast({g \in 1..k : ClaimIsHeader(g)})
         IN  SubSeq(lines[h], 1, 4)
    ELSE current_year

\* C1: when the primary scan returns, the returned line is the last line of
\* the block that is tagged with a primary year, contains an activity keyword
\* and is not a caption; the result is that line verbatim with its tagged year.
C1_PrimaryReturnsLastQualifying ==
    pc = "returned_primary" =>
        /\ ClaimQualifying(PrimaryYears) # {}
        /\ idx = ClaimLast(ClaimQualifying(PrimaryYears))
        /\ result = <<processed_lines[idx].year, lines[idx]>>

\* a primary return that skipped a later line holding a keyword
C1_Witness ==
    /\ pc = "returned_primary"
    /\ \E k \in (idx + 1)..Len(lines) : ClaimHasKeyword(lines[k])

\* C2: a line tagged 2024 is returned only if no line of the block qualifies
\* under the primary years; it is then the last line tagged 2024 that holds a
\* keyword and is not a caption.
C2_SecondaryOnlyWithoutPrimary ==
    pc = "returned_secondary" =>
        /\ ClaimQualifying(PrimaryYears) = {}
        /\ ClaimQualifying(SecondaryYears) # {}
        /\ idx = ClaimLast(ClaimQualifying(SecondaryYears))
        /\ result = <<"2024", lines[idx]>>

\* a 2024 line returned although lines tagged with a primary year follow it
C2_Witness ==
    /\ pc = "returned_secondary"
    /\ \E k \in (idx + 1)..Len(lines) : processed_lines[k].year \in PrimaryYears

\* C3: a block without a year token of 2023-2027 has every line tagged
\* "Unknown", is selected by neither scan and yields ("Unknown", sentinel).
C3_NoYearTokenGivesUnknown ==
    ClaimNoYearToken =>
        /\ \A k \in 1..Len(processed_lines) : processed_lines[k].year = "Unknown"
        /\ pc \notin {"returned_primary", "returned_secondary"}
        /\ pc = "returned_default" => result = <<"Unknown", Sentinel>>

\* a block without year token, holding an activity keyword, has returned
C3_Witness ==
    /\ pc = "returned_default"
    /\ ClaimNoYearToken
    /\ \E k \in 1..Len(lines) : ClaimHasKeyword(lines[k])

\* C4: the function never indexes outside its lists; the sentinel is returned exactly
\* when no line qualifies under the primary years nor under 2024, and then the
\* returned year is the initial current year.
C4_SentinelIffNothingQualifies ==
    /\ pc \in {"start", "annotate", "primary", "secondary", "fallback"} \cup Returned
    /\ pc = "annotate" => idx \in 1..Len(lines)
    /\ pc \in {"primary", "secondary"} => idx \in 1..Len(processed_lines)
    /\ pc \in Returned =>
          /\ (result[2] = Sentinel) <=>
                 (ClaimQualifying(PrimaryYears) = {} /\ ClaimQualifying(SecondaryYears) = {})
          /\ result[2] = Sentinel => result[1] = current_year

\* the sentinel returned with a year other than "Unknown" for a block that
\* holds an activity keyword
C4_Witness ==
    /\ pc = "returned_default"
    /\ result[1] # "Unknown"
    /\ result[1] # running_year
    /\ \E k \in 1..Len(lines) : ClaimHasKeyword(lines[k])

\* C5: a caption line is never returned, and rejecting one moves the scan to
\* the next earlier line.
C5_CaptionNeverReturned ==
    /\ [](pc \in {"returned_primary", "returned_secondary"} => ~ClaimIsCaption(result[2]))
    /\ [][(/\ pc \in {"primary", "secondary"}
           /\ idx > 1
           /\ ClaimIsCaption(processed_lines[idx].text))
          => (pc' = pc /\ idx' = idx - 1 /\ result' = result)]_vars

\* a line returned after a caption below it, with allowed year and keyword,
\* was rejected
C5_Witness ==
    /\ pc \in {"returned_primary", "returned_secondary"}
    /\ \E k \in (idx + 1)..Len(lines) :
          /\ ClaimIsCaption(lines[k])
          /\ ClaimHasKeyword(lines[k])
          /\ processed_lines[k].year = result[1]

\* C6: one annotated entry per input line, in order, each tagged with the
\* running year.
C6_AnnotatorTagsRunningYear ==
    /\ \A k \in 1..Len(processed_lines) :
          /\ processed_lines[k].text = lines[k]
          /\ processed_lines[k].year = ClaimRunningYear(k)
    /\ pc \in Annotated =>
          /\ JoinLines([k \in 1..Len(processed_lines) |-> processed_lines[k].text])
                 = text_block
          /\ \A k \in 1..Len(processed_lines) :
                 ~Contains("\n", processed_lines[k].text)

\* three lines annotated: the first inherits the initial current year, a
\* header below it changes the running year
C6_Witness ==
    /\ pc \in Annotated
    /\ Len(processed_lines) = 3
    /\ ~ClaimIsHeader(1)
    /\ processed_lines[1].year # "Unknown"
    /\ \E k \in 2..3 : ClaimIsHeader(k) /\ processed_lines[k].year # processed_lines[1].year

\* C7: a line that begins with a 4-digit year outside 2023-2027 leaves the
\* running year unchanged and is tagged with it.
C7_ForeignYearIsNoHeader ==
    [][(pc = "annotate" /\ ClaimIsForeignYear(idx))
       => /\ running_year' = running_year
          /\ processed_lines'[idx].year = running_year]_vars

\* a line "2022" below a header: it and the line below it keep the header's year
C7_Witness ==
    /\ pc \in Annotated
    /\ Len(lines) = 3
    /\ ClaimIsHeader(1)
    /\ ClaimIsForeignYear(2)
    /\ processed_lines[2].year = processed_lines[1].year
    /\ processed_lines[3].year = processed_lines[1].year

(***************************************************************************)
(* Properties of categorize_location.  Occurrences are restated on the     *)
(* lower-cased sentence with 0-based character indices.                    *)
(***************************************************************************)
ReturnedLoc == {"returned_departure", "returned_match", "returned_homeport"}

\* the (tag, keyword) pairs of the table in use
ClaimPairs ==
    UNION {{<<LOCATION_KEYWORDS[variant][n][1], LOCATION_KEYWORDS[variant][n][2][k]>> :
               k \in 1..Len(LOCATION_KEYWORDS[variant][n][2])} :
           n \in 1..Len(LOCATION_KEYWORDS[variant])}

\* the 0-based indices at which sub occurs in s
ClaimIndices(sub, s) ==
    {at \in 0..(Len(s) - Len(sub)) : SubSeq(s, at + 1, at + Len(sub)) = sub}

\* the index of the last occurrence of sub in s, or -1
ClaimLastIndex(sub, s) ==
    LET found == ClaimIndices(sub, s)
    IN  IF found = {} THEN -1 ELSE ClaimLast(found)

\* some keyword of the table occurs in s
ClaimSomeKeyword(s) == \E pr \in ClaimPairs : ClaimIndices(pr[2], s) # {}

\* the greatest last-occurrence index in s over all keywords of the table
\* (-1 when no keyword occurs)
ClaimRightmostIndex(s) ==
    ClaimLast({ClaimLastIndex(pr[2], s) : pr \in ClaimPairs})

\* the entries of the departure table whose phrase is in the lower-cased
\* sentence s with no keyword of the table after its last occurrence: every
\* keyword occurrence starts before the end of the phrase, rightmost being
\* ClaimRightmostIndex(s)
ClaimOverriding(s, rightmost) ==
    {n \in 1..Len(departure_patterns[variant]) :
        LET phrase == departure_patterns[variant][n][1]
            last   == ClaimLastIndex(phrase, s)
        IN  last >= 0 /\ rightmost < last + Len(phrase)}

\* C8: when a departure phrase is in the sentence and no keyword follows its
\* last occurrence, the region of that phrase is returned, by the departure
\* override, whatever keywords precede the phrase.
C8_DepartureOverride ==
    pc \in ReturnedLoc =>
        LET s          == Lower(text)
            overriding == ClaimOverriding(s, ClaimRightmostIndex(s))
        IN  overriding # {} =>
               /\ pc = "returned_departure"
               /\ \A n \in overriding : location = departure_patterns[variant][n][2]

\* the override fired although a keyword of another tag precedes the phrase
C8_Witness ==
    /\ pc = "returned_departure"
    /\ location = "Atlantic Ocean"
    /\ \E pr \in ClaimPairs :
          /\ pr[1] \notin {"Norfolk / Portsmouth", location}
          /\ ClaimLastIndex(pr[2], Lower(text)) >= 0
          /\ ClaimLastIndex(pr[2], Lower(text))
                 < ClaimLastIndex("departed norfolk", Lower(text))

\* C9: without override and with a keyword in the sentence, the returned tag
\* is the tag of a keyword whose last occurrence has the greatest index.
C9_RightmostWins ==
    pc \in ReturnedLoc =>
        LET s         == Lower(text)
            rightmost == ClaimRightmostIndex(s)
        IN  (ClaimOverriding(s, rightmost) = {} /\ rightmost >= 0) =>
               /\ pc = "returned_match"
               /\ \E pr \in ClaimPairs :
                     pr[1] = location /\ ClaimLastIndex(pr[2], s) = rightmost

\* "South China Sea" returned for a sentence that names Yokosuka before it
C9_Witness ==
    /\ pc = "returned_match"
    /\ location = "South China Sea"
    /\ ClaimLastIndex("yokosuka", Lower(text)) >= 0
    /\ ClaimLastIndex("yokosuka", Lower(text))
           < ClaimLastIndex("south china sea", Lower(text))

\* C10: a sentence without keyword gets the default of its homeport.
C10_HomeportDefault ==
    (pc \in ReturnedLoc /\ ~ClaimSomeKeyword(Lower(text))) =>
        /\ pc = "returned_homeport"
        /\ homeport = "PACIFIC" => location = "Pacific Ocean"
        /\ homeport = "WESTPAC" => location = "Western Pacific (WESTPAC)"
        /\ homeport \notin {"PACIFIC", "WESTPAC"} => location = "Atlantic Ocean"

\* the sentinel of an empty block classified for a WESTPAC homeport
C10_Witness ==
    /\ pc = "returned_homeport"
    /\ text = Sentinel
    /\ homeport = "WESTPAC"
    /\ location = "Western Pacific (WESTPAC)"

\* the tags of the keyword table, the regions of the departure table and the
\* three homeport defaults
ClaimTagSet ==
    {LOCATION_KEYWORDS[variant][n][1] : n \in 1..Len(LOCATION_KEYWORDS[variant])}
        \cup {departure_patterns[variant][n][2] : n \in 1..Len(departure_patterns[variant])}
        \cup {"Pacific Ocean", "Western Pacific (WESTPAC)", "Atlantic Ocean"}

\* the stage of the function a position belongs to: the departure loop, the
\* rightmost search, the homeport default, a return statement
ClaimStage(p) ==
    CASE p = "departure" -> 1
      [] p = "rightmost" -> 2
      [] p = "homeport" -> 3
      [] OTHER -> 4

\* C11: a call of categorize_location only moves forward through its three
\* stages to one of its three return statements (so it returns after at most
\* three stages); the returned tag belongs to the closed set of tags, and no
\* tag is set before the return; a sentence without keyword ends in the
\* homeport default.
C11_ClosedTagSet ==
    /\ [](pc \in {"departure", "rightmost", "homeport"} \cup ReturnedLoc)
    /\ [][pc \notin ReturnedLoc /\ ClaimStage(pc') > ClaimStage(pc)]_vars
    /\ [](pc \in ReturnedLoc => location \in ClaimTagSet)
    /\ [](pc \notin ReturnedLoc => location = NoResult)
    /\ []((pc \in ReturnedLoc /\ ~ClaimSomeKeyword(Lower(text)))
             => pc = "returned_homeport")

\* a sentence without keyword classified for a homeport that is none of the
\* three known ones
C11_Witness ==
    /\ pc = "returned_homeport"
    /\ homeport \notin {"PACIFIC", "WESTPAC", "ATLANTIC"}
    /\ ~ClaimSomeKeyword(Lower(text))
    /\ location \in ClaimTagSet

\* the positions <<n, k>> of the keywords in the table in use: entry n, keyword k
ClaimKeywordPositions ==
    UNION {{<<n, k>> : k \in 1..Len(LOCATION_KEYWORDS[variant][n][2])} :
           n \in 1..Len(LOCATION_KEYWORDS[variant])}

\* keyword a is scanned before keyword b
ClaimScannedBefore(a, b) == a[1] < b[1] \/ (a[1] = b[1] /\ a[2] < b[2])

\* the keywords whose last occurrence in s is at the rightmost index
ClaimTied(s) ==
    LET rightmost == ClaimRightmostIndex(s)
    IN  {a \in ClaimKeywordPositions :
            ClaimLastIndex(LOCATION_KEYWORDS[variant][a[1]][2][a[2]], s) = rightmost}

\* C13: during the search a visit replaces the current best only when its
\* keyword's last occurrence has a strictly greater index, and the tag the
\* search returns is the tag of the first scanned of the keywords whose last
\* occurrence is at the rightmost index.
C13_TieKeepsFirstScanned ==
    /\ [][pc = "scan" =>
             \/ last_found' = last_found
             \/ /\ last_found'[1] > last_found[1]
                /\ last_found' = <<ClaimLastIndex(ScanOrder[variant][idx][2], Lower(text)),
                                   ScanOrder[variant][idx][1]>>]_vars
    /\ [](pc = "returned_match" =>
             LET tied  == ClaimTied(Lower(text))
                 first == CHOOSE a \in tied :
                              \A b \in tied \ {a} : ClaimScannedBefore(a, b)
             IN  location = LOCATION_KEYWORDS[variant][first[1]][1])

\* a sentence returned by the search in which two keywords have their last
\* occurrence at the same, rightmost index
C13_Witness ==
    /\ pc = "returned_match"
    /\ Cardinality(ClaimTied(Lower(text))) >= 2
    /\ location = "South China Sea"

(***************************************************************************)
(* Properties of extract_date.  A match is restated as a decomposition of  *)
(* a substring into month, letters, dot, white space and digits.           *)
(***************************************************************************)
DateSentinel == "Date Unspecified"

ClaimLetters == {SubSeq(LowerChars, k, k) : k \in 1..Len(LowerChars)}

\* characters a..b of s are all in chars (b = a - 1 is the empty range)
ClaimAllIn(s, a, b, chars) == \A q \in a..b : Lower(SubSeq(s, q, q)) \in chars

\* the substring a..b of s is a month name or abbreviation (in any case), an
\* optional dot, white space, and a day number of one or two digits
ClaimIsDate(s, a, b) ==
    /\ a + 2 <= b
    /\ Lower(SubSeq(s, a, a + 2)) \in
           {"jan", "feb", "mar", "apr", "may", "jun", "jul", "aug", "sep", "oct",
            "nov", "dec"}
    /\ \E day \in {b - 1, b} :
          /\ ClaimAllIn(s, day, b, Digits)
          /\ \E sp \in (a + 3)..(day - 1) :
                /\ ClaimAllIn(s, sp, day - 1, Whitespace)
                /\ \/ ClaimAllIn(s, a + 3, sp - 1, ClaimLetters)
                   \/ /\ sp - 1 >= a + 3
                      /\ SubSeq(s, sp - 1, sp - 1) = "."
                      /\ ClaimAllIn(s, a + 3, sp - 2, ClaimLetters)

\* the <<a, b>> of the substrings of s that are dates
ClaimDates(s) ==
    {ab \in (1..Len(s)) \X (1..Len(s)) : ClaimIsDate(s, ab[1], ab[2])}

\* the date that ends last in s, as <<a, b>>; of the dates that end there,
\* the longest
ClaimLastDate(s) ==
    CHOOSE ab \in ClaimDates(s) :
        \A cd \in ClaimDates(s) :
            cd[2] < ab[2] \/ (cd[2] = ab[2] /\ cd[1] >= ab[1])

\* C14: extract_date returns the date that ends last in the sentence (month
\* name, optional dot, white space, day number), and the sentinel exactly
\* when no substring of the sentence is a date.
C14_LastDateOrSentinel ==
    pc = "returned_date" =>
        IF ClaimDates(text) = {}
        THEN date_str = DateSentinel
        ELSE /\ date_str # DateSentinel
             /\ date_str = SubSeq(text, ClaimLastDate(text)[1], ClaimLastDate(text)[2])

\* a sentence with two dates, the second returned, and a month name without
\* day number after it
C14_Witness ==
    /\ pc = "returned_date"
    /\ date_str = "SEPTEMBER 26"
    /\ \E ab \in ClaimDates(text) : ab[2] < ClaimLastDate(text)[1]
    /\ \E p \in ClaimLastDate(text)[2]..Len(text) :
          p + 15 <= Len(text) /\ SubSeq(text, p, p + 15) = "February arrived"

(***************************************************************************)
(* Properties of scrape_fleet and apply_location_offsets.                  *)
(***************************************************************************)
\* the block of the example, as fetch_history_text returns it (stripped
\* lines, no empty line)
ClaimExamplePage == "2025\nJanuary transited Red Sea.\nFebruary arrived Bahrain."

\* the block of the example as it is written, with its last line break
ClaimExampleBlock == ClaimExamplePage \o "\n"

\* C15: no record of the list has the date "Date Unspecified"; the record
\* built from a status sentence without date has the year returned by
\* parse_status_entry as its date; the example block, with or without its
\* last line break, gives status "February arrived Bahrain.", location
\* "Bahrain" and date "2025".
C15_DateFallsBackToYear ==
    /\ \A k \in 1..Len(results) : results[k].date # DateSentinel
    /\ pc = "returned_fleet" =>
          LET parsed == parse_status_entry(variant, ClaimExampleBlock)
          IN  /\ parsed = <<"2025", "February arrived Bahrain.">>
              /\ \A hp \in Homeports :
                    categorize_location(variant, parsed[2], hp) = "Bahrain"
              /\ DateOrYear(extract_date(parsed[2]), parsed[1]) = "2025"
    /\ (pc = "scrape" /\ results # <<>>) =>
          LET ship_status == results[Len(results)]
          IN  /\ ship_status.status = result[2]
              /\ ClaimDates(ship_status.status) = {} => ship_status.date = result[1]
              /\ text_block = ClaimExamplePage =>
                    /\ ship_status.status = "February arrived Bahrain."
                    /\ ship_status.location = "Bahrain"
                    /\ ship_status.date = "2025"

\* the record of the example page has just been appended
C15_Witness ==
    /\ pc = "scrape"
    /\ results # <<>>
    /\ text_block = ClaimExamplePage
    /\ date_str = DateSentinel
    /\ results[Len(results)].date = "2025"

\* the positions of the records that share the location of record k
ClaimGroup(k) == {j \in 1..Len(results) : results[j].location = results[k].location}

\* the 0-based rank of record k among the records of its location, in list order
ClaimRank(k) == Cardinality({j \in ClaimGroup(k) : j < k})

\* a record with its display coordinates blanked
ClaimWithoutDisplay(ship) == [ship EXCEPT !.display_lat = 0, !.display_lon = 0]

\* C16: a record that is alone at its location gets display_lat = lat and
\* display_lon = lon, at the step that places it whatever its display values
\* were, and holds them when the function returns.
C16_AloneKeepsBase ==
    /\ [][\A k \in 1..Len(results) :
             (Cardinality(ClaimGroup(k)) = 1 /\ results'[k] # results[k]) =>
                 /\ results'[k].display_lat = results[k].lat
                 /\ results'[k].display_lon = results[k].lon]_vars
    /\ [](pc = "returned_offsets" =>
             \A k \in 1..Len(results) :
                 Cardinality(ClaimGroup(k)) = 1 =>
                     /\ results[k].display_lat = results[k].lat
                     /\ results[k].display_lon = results[k].lon)

\* two records alone at their locations, both built with the default display
\* values: the first has been placed on its coordinates, the second not yet
C16_Witness ==
    /\ pc = "place"
    /\ Len(results) = 2
    /\ Cardinality(ClaimGroup(1)) = 1
    /\ results[1].display_lat = results[1].lat
    /\ results[1].display_lon = results[1].lon
    /\ results[2].display_lat = 0
    /\ results[2].display_lat # results[2].lat

\* d(N) of the property, in tenths of a degree
ClaimD(N) ==
    IF variant = "fleet"
    THEN CASE N <= 3 -> 30 [] N > 3 /\ N <= 5 -> 40 [] N > 5 /\ N <= 8 -> 50
           [] OTHER -> 60
    ELSE CASE N <= 3 -> 20 [] N > 3 /\ N <= 6 -> 25 [] N > 6 /\ N <= 10 -> 30
           [] N > 10 /\ N <= 15 -> 35 [] OTHER -> 40

\* k of the property, in hundredths, and m
ClaimK == IF variant = "fleet" THEN 15 ELSE 10
ClaimM == IF variant = "fleet" THEN 2 ELSE 3

\* r = d(N) * (1 + k * (i mod m)), in hundredths of a degree
ClaimR(N, i) == (ClaimD(N) * (100 + ClaimK * (i % ClaimM))) \div 10

\* the greatest r of a group of N: d(N) * (1 + k * (m - 1))
ClaimRMax(N) == (ClaimD(N) * (100 + ClaimK * (ClaimM - 1))) \div 10

\* the absolute value of x, in thousandths of a degree
ClaimMilli(x) == (IF x < 0 THEN 0 - x ELSE x) \div 1000

\* C17: when the function has returned, the i-th record of a group of N > 1
\* is at lat + r * sin(2 pi i / N), lon + r * cos(2 pi i / N) with
\* r = d(N) * (1 + k * (i mod m)); d is non-decreasing; in a group of four the
\* records sit at the angles 0, pi/2, pi, 3pi/2 (east, north, west, south of
\* the coordinates); no record is farther from its coordinates than the
\* greatest r of its group.
C17_RingPlacement ==
    pc = "returned_offsets" =>
        \A n \in 1..Len(results) :
            LET ship == results[n]
                N    == Cardinality(ClaimGroup(n))
                i    == ClaimRank(n)
                sc   == Trig[(TurnUnits * i) \div N]
                dlat == ship.display_lat - ship.lat
                dlon == ship.display_lon - ship.lon
            IN  N > 1 =>
                   /\ dlat = ClaimR(N, i) * sc[1]
                   /\ dlon = ClaimR(N, i) * sc[2]
                   /\ \A smaller \in 1..N : ClaimD(smaller) <= ClaimD(N)
                   /\ N = 4 => <<dlat, dlon>> =
                         CASE i = 0 -> <<0, ClaimR(4, 0) * 10000>>
                           [] i = 1 -> <<ClaimR(4, 1) * 10000, 0>>
                           [] i = 2 -> <<0, 0 - ClaimR(4, 2) * 10000>>
                           [] i = 3 -> <<0 - ClaimR(4, 3) * 10000, 0>>
                   /\ ClaimMilli(dlat) * ClaimMilli(dlat)
                          + ClaimMilli(dlon) * ClaimMilli(dlon)
                        <= (ClaimRMax(N) * 10) * (ClaimRMax(N) * 10)

\* a group of four and, in another run, a group past the last step of d:
\* the list holds a group of four whose second record is north of the
\* coordinates at a staggered radius
C17_Witness ==
    /\ pc = "returned_offsets"
    /\ \E n \in 1..Len(results) :
          /\ Cardinality(ClaimGroup(n)) = 4
          /\ ClaimRank(n) = 1
          /\ results[n].display_lon = results[n].lon
          /\ results[n].display_lat > results[n].lat + ClaimD(4) * 100000

\* C18: no step of apply_location_offsets changes anything but display_lat
\* and display_lon: the list keeps its length and every record keeps its
\* other fields.
C18_OnlyDisplayChanges ==
    [][/\ Len(results') = Len(results)
       /\ \A k \in 1..Len(results) :
             ClaimWithoutDisplay(results'[k]) = ClaimWithoutDisplay(results[k])]_vars

\* the function has returned and moved the display coordinates of a record
\* off its coordinates
C18_Witness ==
    /\ pc = "returned_offsets"
    /\ \E k \in 1..Len(results) :
          /\ results[k].display_lon # results[k].lon
          /\ results[k].display_lat # results[k].lat

\* C19: when the function has returned, two different records of the same
\* location have different (display_lat, display_lon), and a record that
\* shares its location is not on its coordinates.
C19_NoOverlap ==
    pc = "returned_offsets" =>
        \A j, k \in 1..Len(results) :
            (j # k /\ results[j].location = results[k].location) =>
                /\ <<results[j].display_lat, results[j].display_lon>>
                      # <<results[k].display_lat, results[k].display_lon>>
                /\ <<results[k].display_lat, results[k].display_lon>>
                      # <<results[k].lat, results[k].lon>>
                /\ <<results[j].lat, results[j].lon>> = <<results[k].lat, results[k].lon>>

\* the function has returned for a list with a group of at least nine
C19_Witness ==
    /\ pc = "returned_offsets"
    /\ \E k \in 1..Len(results) : Cardinality(ClaimGroup(k)) >= 9

\* the position of the entity with hull h in SHIP_DATABASE
ClaimEntity(h) ==
    CHOOSE n \in 1..Len(SHIP_DATABASE[variant]) : SHIP_DATABASE[variant][n].hull = h

\* the hulls of a list of records, in list order
ClaimHulls(list) == [k \in 1..Len(list) |-> list[k].hull]

\* C20: the list of scrape_fleet holds records of entities of SHIP_DATABASE
\* only, in the order of SHIP_DATABASE and so at most one per entity, also
\* when it is returned; from the call of apply_location_offsets to its return
\* the list holds the same records in the same order.
C20_OnePerEntityInOrder ==
    /\ [](/\ \A k \in 1..Len(results) :
                \E n \in 1..MaxShips : SHIP_DATABASE[variant][n].hull = results[k].hull
          /\ \A j, k \in 1..Len(results) :
                j < k => ClaimEntity(results[j].hull) < ClaimEntity(results[k].hull))
    /\ [][(pc \in {"group", "place", "returned_offsets"})
          => (/\ ClaimHulls(results') = ClaimHulls(results)
              /\ \A k \in 1..Len(results) :
                    ClaimWithoutDisplay(results'[k]) = ClaimWithoutDisplay(results[k]))]_vars

\* the list returned when the page of the second entity could not be fetched
C20_Witness ==
    /\ pc = "returned_fleet"
    /\ ClaimHulls(results)
           = <<SHIP_DATABASE[variant][1].hull, SHIP_DATABASE[variant][3].hull>>

\* C21: an iteration of the scrape loop leaves the list as it is when the
\* request failed, and appends one record, that of the entity whose page was
\* requested, when the request succeeded, whatever the text of the page.
C21_RecordIffFetched ==
    [][(pc = "scrape" /\ pc' = "scrape")
       => (IF response'.failed
           THEN results' = results
           ELSE /\ Len(results') = Len(results) + 1
                /\ SubSeq(results', 1, Len(results)) = results
                /\ results'[Len(results')].hull = SHIP_DATABASE[variant][idx].hull)]_vars

\* C22: every tag categorize_location can return is a key of LOCATION_COORDS
\* of the same scraper, and every record of the list carries a location that
\* is a key of the table together with the coordinates and the region the
\* table has for it: the lookup succeeded, the coordinates of the ocean of the
\* homeport were not used in its place.
C22_LookupAlwaysSucceeds ==
    /\ ClaimTagSet \subseteq CoordKeys(variant)
    /\ \A k \in 1..Len(results) :
          /\ results[k].location \in ClaimTagSet
          /\ results[k].location \in CoordKeys(variant)
          /\ LET coords == CoordsOf(variant, results[k].location)
             IN  /\ results[k].lat = coords.lat
                 /\ results[k].lon = coords.lon
                 /\ results[k].region = coords.region

\* a list returned with a record located by a departure phrase, one located
\* by the homeport default and one located by a keyword
C22_Witness ==
    /\ pc = "returned_fleet"
    /\ Len(results) = 3
    /\ Contains("departed san diego", Lower(results[1].status))
    /\ results[1].location = "Pacific Ocean"
    /\ results[2].status = Sentinel
    /\ results[2].location = HomeportDefault(SHIP_DATABASE[variant][2].homeport)
    /\ results[3].location = "Bahrain"

\* the stages of a run of scrape_fleet, in order
ClaimRunStage(p) ==
    CASE p = "scrape" -> 1 [] p = "group" -> 2 [] p = "place" -> 3
      [] p = "returned_offsets" -> 4 [] p = "returned_fleet" -> 5

\* the display coordinates of record k when it is placed with the records of
\* the list that carry its location as its group
ClaimPlaced(k) ==
    LET N  == Cardinality(ClaimGroup(k))
        i  == ClaimRank(k)
        sc == Trig[(TurnUnits * i) \div N]
    IN  IF N = 1 THEN <<results[k].lat, results[k].lon>>
        ELSE <<results[k].lat + ClaimR(N, i) * sc[1],
               results[k].lon + ClaimR(N, i) * sc[2]>>

\* the locations of a list of records, in list order
ClaimLocations(list) == [k \in 1..Len(list) |-> list[k].location]

\* C23: a run goes through the stages scrape, group, place, return once and
\* in this order; apply_location_offsets is entered only when every entity
\* has been visited; until then no record has an offset; from then on the
\* list keeps its records and their locations, and every record that is
\* given display coordinates gets those of the group formed by all records
\* of the list with its location; so has every record of the returned list.
C23_OffsetsAfterLastEntity ==
    /\ [][ClaimRunStage(pc') >= ClaimRunStage(pc)
             /\ ClaimRunStage(pc') <= ClaimRunStage(pc) + 1]_vars
    /\ [][(pc = "scrape" /\ pc' = "group") => idx > MaxShips]_vars
    /\ [](pc = "scrape" =>
             \A k \in 1..Len(results) :
                 /\ results[k].display_lat = results[k].lat
                 /\ results[k].display_lon = results[k].lon)
    /\ [][(pc # "scrape") =>
             (/\ ClaimLocations(results') = ClaimLocations(results)
              /\ \A k \in 1..Len(results) :
                    results'[k] # results[k] =>
                        <<results'[k].display_lat, results'[k].display_lon>>
                            = ClaimPlaced(k))]_vars
    /\ [](pc = "returned_fleet" =>
             \A k \in 1..Len(results) :
                 <<results[k].display_lat, results[k].display_lon>> = ClaimPlaced(k))

\* a returned list of three records, the first and the last at one location:
\* the last is off its coordinates, the second on them
C23_Witness ==
    /\ pc = "returned_fleet"
    /\ Len(results) = 3
    /\ ClaimGroup(1) = {1, 3}
    /\ results[3].display_lat # results[3].lat \/ results[3].display_lon # results[3].lon
    /\ results[2].display_lat = results[2].lat
    /\ results[2].display_lon = results[2].lon

(***************************************************************************)
(* More properties of parse_status_entry and categorize_location.          *)
(***************************************************************************)
\* the positions of text_block at which a year of Y is written
ClaimYearPositions(Y) ==
    {p \in 1..(Len(text_block) - 3) : SubSeq(text_block, p, p + 3) \in Y}

\* the year written last in text_block among the years of Y
ClaimLastYear(Y) ==
    LET p == ClaimLast(ClaimYearPositions(Y)) IN SubSeq(text_block, p, p + 3)

\* C24: once computed, the current year of the block is the priority year
\* (2025, 2026, 2027) written last in it when there is one, otherwise 2024
\* when it is written, otherwise the year of 2023-2027 written last (a 2023),
\* otherwise "Unknown"; it is never changed afterwards.
C24_InitialYearByTier ==
    pc # "start" =>
        current_year =
            IF ClaimYearPositions(PrimaryYears) # {} THEN ClaimLastYear(PrimaryYears)
            ELSE IF ClaimYearPositions({"2024"}) # {} THEN "2024"
            ELSE IF ClaimYearPositions(YearTokens) # {}
                 THEN IF ClaimLastYear(YearTokens) = "2023" THEN "2023" ELSE "none"
            ELSE "Unknown"

\* a block that names 2026, then 2025, then 2024: the current year is 2025
C24_Witness ==
    /\ pc = "annotate"
    /\ text_block = "2026 arrived\n2025\n2024"
    /\ current_year = "2025"

\* the entries of the departure table whose phrase is in the lower-cased
\* sentence s
ClaimDepartures(s) ==
    {n \in 1..Len(departure_patterns[variant]) :
        ClaimLastIndex(departure_patterns[variant][n][1], s) >= 0}

\* the port of entry n of the departure table: its phrase without "departed "
ClaimPort(n) ==
    SubSeq(departure_patterns[variant][n][1], Len("departed ") + 1,
           Len(departure_patterns[variant][n][1]))

\* C25: every port of the departure table is a keyword of the keyword table;
\* when the departure override returns, the phrases of the table that are in
\* the sentence have their last occurrences at different places, and the
\* region returned is that of the phrase whose last occurrence is rightmost.
C25_OnlyLatestDepartureFires ==
    /\ \A n \in 1..Len(departure_patterns[variant]) :
          /\ SubSeq(departure_patterns[variant][n][1], 1, Len("departed ")) = "departed "
          /\ \E pr \in ClaimPairs : pr[2] = ClaimPort(n)
    /\ pc = "returned_departure" =>
          LET s       == Lower(text)
              present == ClaimDepartures(s)
              at(n)   == ClaimLastIndex(departure_patterns[variant][n][1], s)
          IN  /\ present # {}
              /\ \A m, n \in present : m # n => at(m) # at(n)
              /\ \A n \in present :
                    (\A m \in present : at(m) <= at(n))
                        => location = departure_patterns[variant][n][2]

\* the override fired for "departed norfolk", which stands after "departed
\* san diego", an earlier entry of the table with another region
C25_Witness ==
    /\ pc = "returned_departure"
    /\ location = "Atlantic Ocean"
    /\ ClaimLastIndex("departed san diego", Lower(text)) >= 0
    /\ ClaimLastIndex("departed san diego", Lower(text))
           < ClaimLastIndex("departed norfolk", Lower(text))

\* C26: categorize_location called with a sentence that is a keyword of the
\* table returns the tag the table lists the keyword under, whatever the
\* homeport.
C26_EveryKeywordEffective ==
    pc \in ReturnedLoc =>
        \A pr \in ClaimPairs : text = pr[2] => location = pr[1]

\* keyword a is the beginning of keyword b
ClaimIsPrefix(a, b) == Len(a) <= Len(b) /\ SubSeq(b, 1, Len(a)) = a

\* C27: in the table, two keywords of which one begins the other have the
\* same tag; when the search returns a tag, whatever the order of the pairs
\* in the table, the keywords whose last occurrence is at the rightmost index
\* begin one another and all carry the tag returned.
C27_TableOrderIrrelevant ==
    /\ pc = "departure" =>
          \A a, b \in ClaimPairs : ClaimIsPrefix(a[2], b[2]) => a[1] = b[1]
    /\ pc = "returned_match" =>
          LET tied  == ClaimTied(Lower(text))
              kw(a) == LOCATION_KEYWORDS[variant][a[1]][2][a[2]]
          IN  /\ \A a, b \in tied :
                    ClaimIsPrefix(kw(a), kw(b)) \/ ClaimIsPrefix(kw(b), kw(a))
              /\ \A a \in tied : LOCATION_KEYWORDS[variant][a[1]][1] = location

\* the search over the reversed table has returned for a sentence in which
\* two keywords have their last occurrence at the rightmost index, after a
\* keyword of another tag
C27_Witness ==
    /\ pc = "returned_match"
    /\ scan_order = Permuted(ScanOrder[variant], "reversed")
    /\ scan_order # ScanOrder[variant]
    /\ Cardinality(ClaimTied(Lower(text))) >= 2
    /\ ClaimLastIndex("luzon", Lower(text)) >= 0
    /\ location = "South China Sea"

(***************************************************************************)
(* Properties of make_api_request and of the DVIDS fetch loops.            *)
(***************************************************************************)
\* the attempt was answered 200 with a JSON body
ClaimAnsweredJson(r) == ~r.raised /\ r.status_code = 200 /\ r.body # NoBody

\* the attempt was answered 403
ClaimAnswered403(r) == ~r.raised /\ r.status_code = 403

ClaimIds(items) == {items[k].id : k \in 1..Len(items)}

\* the first item of the list with the id
ClaimFirstWithId(items, id) ==
    items[CHOOSE k \in 1..Len(items) :
              /\ items[k].id = id
              /\ \A j \in 1..(k - 1) : items[j].id # id]

\* C29: the list of the fetch loops never holds two items with the same id,
\* also when it is returned; it grows only by an item whose id was not seen
\* before; for every id parsed so far it holds the first item parsed with
\* that id, and it has as many items as there are ids parsed.
C29_NoDuplicateIds ==
    /\ [](/\ \A j, k \in 1..Len(all_items) :
                j # k => all_items[j].id # all_items[k].id
          /\ ClaimIds(all_items) = ClaimIds(parsed_items)
          /\ Len(all_items) = Cardinality(ClaimIds(parsed_items))
          /\ \A k \in 1..Len(all_items) :
                all_items[k] = ClaimFirstWithId(parsed_items, all_items[k].id))
    /\ [][pc = "items" =>
             \/ all_items' = all_items
             \/ /\ Len(all_items') = Len(all_items) + 1
                /\ SubSeq(all_items', 1, Len(all_items)) = all_items
                /\ all_items'[Len(all_items')].id \notin ClaimIds(all_items)
                /\ all_items'[Len(all_items')].id \notin seen_ids]_vars

\* a returned list of two items: id 101 was parsed twice, its first item
\* (title B) is the one kept
C29_Witness ==
    /\ pc = "returned_items"
    /\ Len(all_items) = 2
    /\ Len(parsed_items) >= 4
    /\ \E k \in 1..Len(all_items) :
          all_items[k].title = "B" /\ ClaimFirstWithId(parsed_items, all_items[k].id).title = "B"
    /\ \E k \in 1..Len(parsed_items) : parsed_items[k].title = "A"

(***************************************************************************)
(* The year of the status returned by parse_status_entry.                  *)
(***************************************************************************)
\* C30: a line returned as the status is tagged 2024, 2025, 2026 or 2027 and
\* is returned with that year, never a line tagged 2023 or "Unknown"; a block
\* whose year tokens are all 2023 gives the sentinel with the year "2023".
C30_StatusYearInWindow ==
    /\ pc \in {"returned_primary", "returned_secondary"} =>
          /\ result[2] = lines[idx]
          /\ result[1] = processed_lines[idx].year
          /\ result[1] = ClaimRunningYear(idx)
          /\ result[1] \in {"2024", "2025", "2026", "2027"}
          /\ processed_lines[idx].year \notin {"2023", "Unknown"}
    /\ pc \in Returned =>
          ((/\ ClaimYearPositions({"2023"}) # {}
            /\ ClaimYearPositions(YearTokens \ {"2023"}) = {})
              => pc = "returned_default" /\ result = <<"2023", Sentinel>>)

\* the sentinel returned with the year 2023 for a block that names no other
\* year and holds a line with an activity keyword
C30_Witness ==
    /\ pc = "returned_default"
    /\ result = <<"2023", Sentinel>>
    /\ ClaimYearPositions({"2023"}) # {}
    /\ \E k \in 1..Len(lines) :
          /\ ClaimHasKeyword(lines[k])
          /\ ~ClaimIsCaption(lines[k])
          /\ processed_lines[k].year = "2023"

====
